---- MODULE Spec2Model ----
(***************************************************************************)
(* fontmesh: glyph outline -> linearized outline -> Mesh2D -> Mesh3D.      *)
(*                                                                         *)
(* Numbers.  The program computes in f32 em units.  The model computes on  *)
(* an integer grid of 1/Scale em: a Point2D is a pair <<x, y>> of grid     *)
(* units.  A unit vector (a normal) is a triple at fixed point NormOne.    *)
(* Every threshold of the source (EPSILON, AREA_THRESHOLD, 1e-10) is       *)
(* converted to the grid from its rational value 1/..._DEN.                *)
(***************************************************************************)
EXTENDS Integers, Sequences, FiniteSets, TLC

VARIABLES
    lin_outline,    \* the Outline2D handed to linearize_outline
    lin_called,     \* whether linearize_outline has run on lin_outline
    lin_res,        \* its result, per subdivisions value
    tri_run,        \* triangulate: "idle", "tessellating" or "done"
    tri_geometry,   \* the VertexBuffers SimpleBuffersBuilder writes
    tri_ids,        \* the VertexIds add_fill_vertex returned, in call order
    tri_triangles,  \* the number of add_triangle calls
    tri_res,        \* the Result triangulate returned
    mesh2,          \* the caller's Mesh2D buffer
    pipe_call,      \* the last operation called and its character
    pipe_res,       \* the Result it returned
    mesh3,          \* the caller's Mesh3D
    mesh_panic,     \* whether compute_smooth_normals has panicked
    buf_dirty,      \* whether the buffer the last _reuse call got held a mesh
    extractor,      \* the OutlineExtractor ttf_parser drives
    ext_cmds,       \* the OutlineBuilder commands it got, in order
    ex_in,          \* the arguments of the last extrude call
    ex_out,         \* the Mesh3D it returned
    sm_contour,     \* the contour linearize_contour is working on
    sm_subdivisions,\* its subdivisions argument
    sm_pc,          \* where it is: "idle", "loop", "collinear", "dedup", "done"
    sm_i,           \* the index the running loop reads next (i, read_idx)
    sm_acc,         \* the points pushed by the state machine, and its state
    sm_st,          \* the vector remove_collinear_points compacts in place
    sm_work,        \* counts of the work done so far
    qb_in,          \* the arguments of the last linearize_qbezier call
    qb_out,         \* the points it appended
    rc_in,          \* the points remove_collinear_points was last called on
    rc_out          \* the points it left, and the number it popped at the end

linVars == <<lin_outline, lin_called, lin_res>>
triVars == <<tri_run, tri_geometry, tri_ids, tri_triangles, tri_res>>
pipeVars == <<mesh2, pipe_call, pipe_res, buf_dirty>>
meshVars == <<mesh3, mesh_panic>>
extVars == <<extractor, ext_cmds>>
exVars == <<ex_in, ex_out>>
smVars == <<sm_contour, sm_subdivisions, sm_pc, sm_i, sm_acc, sm_st, sm_work>>
qbVars == <<qb_in, qb_out>>
rcVars == <<rc_in, rc_out>>
unitVars == <<extVars, exVars, smVars, qbVars, rcVars>>
vars == <<linVars, triVars, pipeVars, meshVars, unitVars>>

\* ------------------------------------------------------------------------
\* Bounds of the model
\* ------------------------------------------------------------------------
Scale == 4000
MaxPts == 3
MaxContours == 1
MaxTriVerts == 3
MaxTris == 2
MaxExtPts == 3
MaxCmds == 5
MaxSmPts == 4

\* ------------------------------------------------------------------------
\* Arithmetic helpers
\* ------------------------------------------------------------------------
Abs(x) == IF x < 0 THEN -x ELSE x

\* a / b rounded toward zero (b > 0), as an `as` cast or a truncation does
TruncDiv(a, b) == IF a < 0 THEN -((-a) \div b) ELSE a \div b

\* a / b rounded to nearest, halves away from zero (b > 0), as f32::round
RoundDiv(a, b) == IF a < 0 THEN -((2 * (-a) + b) \div (2 * b))
                  ELSE (2 * a + b) \div (2 * b)

CeilDiv(a, b) == (a + b - 1) \div b

RECURSIVE IsqrtIter(_, _, _)
IsqrtIter(x, lo, hi) ==
    IF lo >= hi THEN lo
    ELSE LET mid == (lo + hi + 1) \div 2
         IN  IF mid * mid <= x THEN IsqrtIter(x, mid, hi)
             ELSE IsqrtIter(x, lo, mid - 1)

\* floor(sqrt(x)) for 0 <= x < 2^31
Isqrt(x) == IsqrtIter(x, 0, 46340)

\* ------------------------------------------------------------------------
\* types.rs
\* ------------------------------------------------------------------------
ContourPoint_new(point, on_curve) == [point |-> point, on_curve |-> on_curve]
ContourPoint_on_curve(point) == [point |-> point, on_curve |-> TRUE]
ContourPoint_off_curve(point) == [point |-> point, on_curve |-> FALSE]

Contour_new(closed) == [closed |-> closed, points |-> <<>>]
Contour_push(contour, cp) == [contour EXCEPT !.points = Append(@, cp)]
Contour_push_on_curve(contour, point) ==
    [contour EXCEPT !.points = Append(@, ContourPoint_on_curve(point))]
Contour_is_empty(contour) == Len(contour.points) = 0

Outline2D_new == [contours |-> <<>>]
Outline2D_add_contour(outline, contour) ==
    [outline EXCEPT !.contours = Append(@, contour)]
Outline2D_is_empty(outline) == Len(outline.contours) = 0

\* Quality::value
Quality_value(q) ==
    CASE q = "Low" -> 10
      [] q = "Normal" -> 20
      [] q = "High" -> 50
      [] OTHER -> q

\* Vec2 arithmetic
Vsub(a, b) == <<a[1] - b[1], a[2] - b[2]>>
length_squared(v) == v[1] * v[1] + v[2] * v[2]
Cross2(a, b) == a[1] * b[2] - a[2] * b[1]
Dot2(a, b) == a[1] * b[1] + a[2] * b[2]
\* the first of the two points taken for their midpoint
Vmid_first(a, b) == a

Vmid(a, b) == <<TruncDiv(a[1] + b[1], 2), TruncDiv(a[2] + b[2], 2)>>

\* ------------------------------------------------------------------------
\* linearize.rs
\* ------------------------------------------------------------------------
\* const EPSILON: f32 = 1e-5 and const AREA_THRESHOLD: f32 = 1e-5, as 1/DEN
EPSILON_DEN == 100000
AREA_THRESHOLD_DEN == 100000

\* q < EPSILON * EPSILON for a squared length q in grid units
BelowEpsilonSq(q) ==
    q < CeilDiv(CeilDiv(Scale * Scale, EPSILON_DEN), EPSILON_DEN)

\* d.abs() > EPSILON for a length d in grid units
AbsAboveEpsilon(d) == Abs(d) > Scale \div EPSILON_DEN

\* area > 1/den and area < 1/den, for a doubled area in grid units
AreaAbove(area2, den) == area2 > (2 * Scale * Scale) \div den
AreaBelow(area2, den) == area2 < CeilDiv(2 * Scale * Scale, den)

\* triangle_area, doubled.  Heron's s(s-a)(s-b)(s-c) is the squared area of
\* the triangle, (cross / 2)^2; the fast path returns 0 for a short side.
triangle_area2(p0, p1, p2) ==
    LET a_sq == length_squared(Vsub(p0, p1))
        b_sq == length_squared(Vsub(p1, p2))
        c_sq == length_squared(Vsub(p2, p0))
    IN  IF BelowEpsilonSq(a_sq) \/ BelowEpsilonSq(b_sq) \/ BelowEpsilonSq(c_sq)
        THEN 0
        ELSE Abs(Cross2(Vsub(p1, p0), Vsub(p2, p0)))

\* 10000 * sin(k * 0.9 degrees), k = 0..100: the table behind asin
SinTab ==
    <<0, 157, 314, 471, 628, 785, 941, 1097, 1253, 1409, 1564, 1719, 1874,
      2028, 2181, 2334, 2487, 2639, 2790, 2940, 3090, 3239, 3387, 3535, 3681,
      3827, 3971, 4115, 4258, 4399, 4540, 4679, 4818, 4955, 5090, 5225, 5358,
      5490, 5621, 5750, 5878, 6004, 6129, 6252, 6374, 6494, 6613, 6730, 6845,
      6959, 7071, 7181, 7290, 7396, 7501, 7604, 7705, 7804, 7902, 7997, 8090,
      8181, 8271, 8358, 8443, 8526, 8607, 8686, 8763, 8838, 8910, 8980, 9048,
      9114, 9178, 9239, 9298, 9354, 9409, 9461, 9511, 9558, 9603, 9646, 9686,
      9724, 9759, 9792, 9823, 9851, 9877, 9900, 9921, 9940, 9956, 9969, 9980,
      9989, 9995, 9999, 10000>>

\* the table's steps in a quarter turn (asin ranges over 0 .. pi/2)
QuarterTurn == 100

\* (cross.abs() * inv_len_product).min(1.0).asin(), in 1/(4*QuarterTurn) turns,
\* rounded down.  |cross| / (|t0| |t1|) is the sine of the acute angle between
\* t0 and t1, whose tangent is |cross| / |dot|: the angle is at least k steps
\* iff |cross| * cos(k) >= |dot| * sin(k).  t0 and t1 are doubled differences;
\* the ratio is scale-free and the halves keep the products in 32 bits.
asin_steps(t0, t1) ==
    LET u == <<t0[1] \div 2, t0[2] \div 2>>
        v == <<t1[1] \div 2, t1[2] \div 2>>
    IN  CHOOSE r \in {Cardinality({k \in 1..QuarterTurn :
                           c * SinTab[QuarterTurn - k + 1] >= d * SinTab[k + 1]}) :
                       c \in {Abs(Cross2(u, v))}, d \in {Abs(Dot2(u, v))}} : TRUE

\* qbezier at t = k / m
qbezier(p0, p1, p2, k, m) ==
    LET a == (m - k) * (m - k)
        b2 == 2 * k * (m - k)
        c == k * k
    IN  <<RoundDiv(p0[1] * a + p1[1] * b2 + p2[1] * c, m * m),
          RoundDiv(p0[2] * a + p1[2] * b2 + p2[2] * c, m * m)>>

\* for _ in 0..full_batches: the four points at t, t + step, t + 2 step and
\* t + 3 step, then t += 4 step; t starts at step.  Batch number b (from 0)
\* starts at t = (1 + 4 b) step.
qbezier_batches(p0, p1, p2, m, full_batches) ==
    [j \in 1..(4 * full_batches) |->
        ContourPoint_on_curve(
            qbezier(p0, p1, p2, (1 + 4 * ((j - 1) \div 4)) + ((j - 1) % 4), m))]

\* the remaining points taken from t = step again
qbezier_remainder_restarted(p0, p1, p2, m, t, count) ==
    [j \in 1..count |-> ContourPoint_on_curve(qbezier(p0, p1, p2, j, m))]

\* for _ in 0..(num_points % batch_size): one point at t, then t += step
qbezier_remainder(p0, p1, p2, m, t, count) ==
    [j \in 1..count |-> ContourPoint_on_curve(qbezier(p0, p1, p2, t + j - 1, m))]

\* the angle taken as a fraction of a half turn
num_points_of_half_turn(angle_steps, subdivisions) ==
    RoundDiv(angle_steps * subdivisions, 2 * QuarterTurn)

\* round(angle / (2 pi) * subdivisions)
num_points_of(angle_steps, subdivisions) ==
    RoundDiv(angle_steps * subdivisions, 4 * QuarterTurn)

\* linearize_qbezier: the points of `points` followed by the interior points
\* the num_points interior points: none for num_points = 0, else the full
\* batches of 4 and the remaining points, with step = 1 / (num_points + 1)
qbezier_points(p0, p1, p2, num_points) ==
    IF num_points = 0 THEN <<>>
    ELSE qbezier_batches(p0, p1, p2, num_points + 1, num_points \div 4)
         \o qbezier_remainder(p0, p1, p2, num_points + 1,
                              1 + 4 * (num_points \div 4), num_points % 4)

linearize_qbezier(p0, p1, p2, subdivisions, points) ==
    LET t0 == <<2 * (p1[1] - p0[1]), 2 * (p1[2] - p0[2])>>
        t1 == <<2 * (p2[1] - p1[1]), 2 * (p2[2] - p1[2])>>
    IN  IF AreaBelow(triangle_area2(p0, p1, p2), AREA_THRESHOLD_DEN) THEN points
        ELSE IF BelowEpsilonSq(length_squared(t0))
                \/ BelowEpsilonSq(length_squared(t1)) THEN points
        ELSE CHOOSE r \in {points \o qbezier_points(p0, p1, p2, num_points) :
                               num_points \in {num_points_of(asin_steps(t0, t1),
                                                             subdivisions)}} : TRUE

\* enum LinearizeState
LinearizeState_Initial ==
    [tag |-> "Initial", last_point |-> <<0, 0>>, control_point |-> <<0, 0>>]
LinearizeState_OnCurve(last_point) ==
    [tag |-> "OnCurve", last_point |-> last_point, control_point |-> <<0, 0>>]
\* OffCurve built with its two fields exchanged
LinearizeState_OffCurve_swapped(last_point, control_point) ==
    [tag |-> "OffCurve", last_point |-> control_point,
     control_point |-> last_point]

LinearizeState_OffCurve(last_point, control_point) ==
    [tag |-> "OffCurve", last_point |-> last_point,
     control_point |-> control_point]

\* `if cp.on_curve` read in a wrong sense
on_curve_branch_inverted(cp) == ~cp.on_curve

\* `if cp.on_curve` in state OnCurve
on_curve_branch(cp) == cp.on_curve

\* the body of `for i in 0..n`: one transition on the point cp
linearize_step(acc, cp, subdivisions) ==
    LET state == acc.state
    IN  CASE state.tag = "Initial" ->
               [points |-> Append(acc.points, ContourPoint_on_curve(cp.point)),
                state |-> LinearizeState_OnCurve(cp.point)]
          [] state.tag = "OnCurve" ->
               IF on_curve_branch(cp)
               THEN [points |-> Append(acc.points,
                                       ContourPoint_on_curve(cp.point)),
                     state |-> LinearizeState_OnCurve(cp.point)]
               ELSE [points |-> acc.points,
                     state |-> LinearizeState_OffCurve(state.last_point,
                                                       cp.point)]
          [] state.tag = "OffCurve" ->
               IF cp.on_curve
               THEN [points |-> Append(
                         linearize_qbezier(state.last_point,
                             state.control_point, cp.point, subdivisions,
                             acc.points),
                         ContourPoint_on_curve(cp.point)),
                     state |-> LinearizeState_OnCurve(cp.point)]
               ELSE LET mid == Vmid(state.control_point, cp.point)
                    IN  [points |-> Append(
                             linearize_qbezier(state.last_point,
                                 state.control_point, mid, subdivisions,
                                 acc.points),
                             ContourPoint_on_curve(mid)),
                         state |-> LinearizeState_OffCurve(mid, cp.point)]

RECURSIVE linearize_loop(_, _, _, _)
linearize_loop(contour, subdivisions, i, acc) ==
    IF i > Len(contour.points) THEN acc
    ELSE linearize_loop(contour, subdivisions, i + 1,
            linearize_step(acc, contour.points[i], subdivisions))

\* Vec indexing: points[i] with i counted from 0; out of range is a panic
InRange(points, i) == 0 <= i /\ i < Len(points)
At(points, i) == points[i + 1]

\* the iteration testing against the point before read_idx, kept or not
collinear_step_prev_read(st, read_idx) ==
    IF st.panic THEN st
    ELSE IF AreaAbove(triangle_area2(At(st.points, read_idx - 1).point,
                                At(st.points, read_idx).point,
                                At(st.points, read_idx + 1).point),
                 EPSILON_DEN)
    THEN [points |-> IF st.write_idx # read_idx
                     THEN [st.points EXCEPT ![st.write_idx + 1] = At(st.points, read_idx)]
                     ELSE st.points,
          panic |-> FALSE,
          write_idx |-> st.write_idx + 1]
    ELSE st

\* one iteration of `for read_idx in 1..n - 1` (the two-pointer compaction)
collinear_step(st, read_idx) ==
    IF st.panic THEN st
    ELSE IF ~(InRange(st.points, st.write_idx - 1) /\ InRange(st.points, read_idx)
              /\ InRange(st.points, read_idx + 1))
    THEN [st EXCEPT !.panic = TRUE]
    ELSE IF AreaAbove(triangle_area2(At(st.points, st.write_idx - 1).point,
                                     At(st.points, read_idx).point,
                                     At(st.points, read_idx + 1).point),
                      EPSILON_DEN)
    THEN [points |-> IF st.write_idx # read_idx
                     THEN [st.points EXCEPT ![st.write_idx + 1] = At(st.points, read_idx)]
                     ELSE st.points,
          panic |-> FALSE,
          write_idx |-> st.write_idx + 1]
    ELSE st

\* the iterations read_idx = lo, ..., hi - 1 in order (the range is halved so
\* that the evaluation depth stays logarithmic in its length)
RECURSIVE collinear_loop(_, _, _)
collinear_loop(st, lo, hi) ==
    IF lo >= hi THEN st
    ELSE IF hi - lo = 1 THEN collinear_step(st, lo)
    ELSE CHOOSE r \in UNION {{collinear_loop(l, m, hi) :
                                   l \in {collinear_loop(st, lo, m)}} :
                               m \in {(lo + hi) \div 2}} : TRUE

\* while contour.points.len() > 1: pop the last point while it is within
\* EPSILON of the first
\* the test of the loop body: `break` unless the end points coincide
ends_apart(points) ==
    LET first == At(points, 0).point
        last == At(points, Len(points) - 1).point
        diff == Vsub(last, first)
    IN  AbsAboveEpsilon(diff[1]) \/ AbsAboveEpsilon(diff[2])

RECURSIVE dedup_loop(_)
dedup_loop(points) ==
    IF Len(points) > 1
    THEN IF ends_apart(points)
         THEN points
         ELSE dedup_loop(SubSeq(points, 1, Len(points) - 1))
    ELSE points

\* the read range of the compaction loop taken one too far
collinear_stop_past_end(n) == n

\* the read range of the compaction loop: 1..n - 1
collinear_stop(n) == n - 1

\* if contour.points.len() < 3 { contour.points.truncate(0) }
truncate_short(deduped) ==
    [points |-> IF Len(deduped) < 3 THEN <<>> ELSE deduped, panic |-> FALSE]

\* after the loop left st: the last point is kept at write_idx, the points
\* are truncated to write_idx + 1, the duplicate end points are popped
keep_last(n, st) ==
    SubSeq(IF st.write_idx # n - 1
           THEN [st.points EXCEPT ![st.write_idx + 1] = At(st.points, n - 1)]
           ELSE st.points,
           1, st.write_idx + 1)

collinear_finish(points, n, st) ==
    IF st.panic \/ ~InRange(st.points, st.write_idx)
    THEN [points |-> points, panic |-> TRUE]
    ELSE truncate_short(dedup_loop(keep_last(n, st)))

remove_collinear_points(points) ==
    IF Len(points) < 3 THEN [points |-> points, panic |-> FALSE]
    ELSE collinear_finish(points, Len(points),
             collinear_loop([points |-> points, panic |-> FALSE, write_idx |-> 1],
                            1, collinear_stop(Len(points))))

\* the closing curve emitted without looking at contour.closed
closing_curve_open_too(contour, subdivisions, acc) ==
    IF acc.state.tag = "OffCurve"
    THEN linearize_qbezier(acc.state.last_point, acc.state.control_point,
                           contour.points[1].point, subdivisions, acc.points)
    ELSE acc.points

\* if let OffCurve { .. } = state { if contour.closed { linearize_qbezier } }
closing_curve(contour, subdivisions, acc) ==
    IF acc.state.tag = "OffCurve" /\ contour.closed
    THEN linearize_qbezier(acc.state.last_point, acc.state.control_point,
                           contour.points[1].point, subdivisions, acc.points)
    ELSE acc.points

\* the contour remove_collinear_points leaves in `result`
compacted(closed, rc) ==
    [contour |-> [closed |-> closed, points |-> rc.points], panic |-> rc.panic]

linearize_contour(contour, subdivisions) ==
    IF Len(contour.points) < 2
    THEN [contour |-> [closed |-> contour.closed, points |-> contour.points],
          panic |-> FALSE]
    ELSE compacted(contour.closed,
             remove_collinear_points(
                 closing_curve(contour, subdivisions,
                     linearize_loop(contour, subdivisions, 1,
                         [points |-> <<>>, state |-> LinearizeState_Initial]))))

\* the linearized contour added whether it is empty or not
add_linearized_always(result, linearized) ==
    IF linearized.panic THEN [tag |-> "Panic", value |-> result]
    ELSE [tag |-> "Ok", value |-> Outline2D_add_contour(result, linearized.contour)]

\* if !linearized.is_empty() { result.add_contour(linearized) }
add_linearized(result, linearized) ==
    IF linearized.panic THEN [tag |-> "Panic", value |-> result]
    ELSE [tag |-> "Ok",
          value |-> IF ~Contour_is_empty(linearized.contour)
                    THEN Outline2D_add_contour(result, linearized.contour)
                    ELSE result]

\* for contour in outline.contours, from contour i on
RECURSIVE linearize_contours(_, _, _, _)
linearize_contours(contours, subdivisions, i, res) ==
    IF i > Len(contours) \/ res.tag # "Ok" THEN res
    ELSE linearize_contours(contours, subdivisions, i + 1,
             CHOOSE r \in {add_linearized(res.value,
                               linearize_contour(contours[i], subdivisions))} : TRUE)

\* linearize_outline: Ok(result); a panic inside is reported as "Panic"
linearize_outline(outline, subdivisions) ==
    linearize_contours(outline.contours, subdivisions, 1,
                       [tag |-> "Ok", value |-> Outline2D_new])

\* ------------------------------------------------------------------------
\* types.rs: Mesh2D, Mesh3D
\* ------------------------------------------------------------------------
Mesh2D_new == [vertices |-> <<>>, indices |-> <<>>]
\* mesh.clear() left out: the buffer keeps what it held
Mesh2D_clear_skipped(mesh) == mesh
Mesh2D_clear(mesh) == [vertices |-> <<>>, indices |-> <<>>]
Mesh2D_is_empty(mesh) == Len(mesh.vertices) = 0

Mesh3D_new == [vertices |-> <<>>, indices |-> <<>>, normals |-> <<>>]
Mesh3D_clear(mesh) == [vertices |-> <<>>, indices |-> <<>>, normals |-> <<>>]
Mesh3D_is_empty(mesh) == Len(mesh.vertices) = 0

\* ------------------------------------------------------------------------
\* error.rs: a Result is a record; tag is "Ok" or the FontMeshError variant,
\* payload the variant's char or message, stages the pipeline stages the
\* call has entered, in order
\* ------------------------------------------------------------------------
NoValue == <<>>
Ok(value, stages) == [tag |-> "Ok", value |-> value, stages |-> stages, payload |-> ""]
Err(e, stages) == [tag |-> e.tag, value |-> NoValue, stages |-> stages, payload |-> e.payload]
GlyphNotFound(c) == [tag |-> "GlyphNotFound", payload |-> c]
NoOutline == [tag |-> "NoOutline", payload |-> ""]
TriangulationFailed(msg) == [tag |-> "TriangulationFailed", payload |-> msg]
\* an index out of range or another panic; not a FontMeshError
Panicked == [tag |-> "Panic", payload |-> ""]

\* ------------------------------------------------------------------------
\* triangulate.rs
\* ------------------------------------------------------------------------
VertexBuffers_new == [vertices |-> <<>>, indices |-> <<>>]

\* add_fill_vertex handing out the length after the push
add_fill_vertex_after_push(geometry, position) ==
    [geometry |-> [geometry EXCEPT !.vertices = Append(@, position)],
     id |-> Len(geometry.vertices) + 1]

\* FillGeometryBuilder::add_fill_vertex: the id is the length before the push
add_fill_vertex(geometry, position) ==
    [geometry |-> [geometry EXCEPT !.vertices = Append(@, position)],
     id |-> Len(geometry.vertices)]

\* GeometryBuilder::add_triangle
add_triangle(geometry, a, b, c) ==
    [geometry EXCEPT !.indices = Append(Append(Append(@, a), b), c)]

\* The tessellator is lyon's; what it is to this program is the sequence of
\* callbacks it makes and whether it reports an error.  A run is a script:
\*   "fan"   one add_fill_vertex per outline point, then per contour of
\*           n >= 3 points the triangles (first, k, k + 1),
\*   "none"  no callback (nothing to fill),
\*   "error" a TessellationError.
TessScripts == {"fan", "none", "error"}

RECURSIVE path_points(_, _)
path_points(contours, i) ==
    IF i > Len(contours) THEN <<>>
    ELSE [j \in 1..Len(contours[i].points) |-> contours[i].points[j].point]
         \o path_points(contours, i + 1)

\* the ids add_fill_vertex returns for the points, in call order
RECURSIVE tessellate_vertices(_, _, _)
tessellate_vertices(st, positions, i) ==
    IF i > Len(positions) THEN st
    ELSE tessellate_vertices(
             CHOOSE s \in {[geometry |-> r.geometry, ids |-> Append(st.ids, r.id)] :
                              r \in {add_fill_vertex(st.geometry, positions[i])}} : TRUE,
             positions, i + 1)

\* the fan of one contour whose points got the ids ids[base + 1 .. base + n]
RECURSIVE tessellate_fan(_, _, _, _, _)
tessellate_fan(geometry, ids, base, n, k) ==
    IF k + 1 > n THEN geometry
    ELSE tessellate_fan(
             CHOOSE g \in {add_triangle(geometry, ids[base + 1], ids[base + k],
                                        ids[base + k + 1])} : TRUE,
             ids, base, n, k + 1)

RECURSIVE tessellate_fans(_, _, _, _, _)
tessellate_fans(geometry, ids, contours, i, base) ==
    IF i > Len(contours) THEN geometry
    ELSE tessellate_fans(
             tessellate_fan(geometry, ids, base, Len(contours[i].points), 2),
             ids, contours, i + 1, base + Len(contours[i].points))

\* FillTessellator::tessellate_path driving SimpleBuffersBuilder
tessellate_path(outline, script, geometry) ==
    IF script = "error" THEN [geometry |-> geometry, ok |-> FALSE]
    ELSE IF script = "none" THEN [geometry |-> geometry, ok |-> TRUE]
    ELSE LET st == tessellate_vertices([geometry |-> geometry, ids |-> <<>>],
                                       path_points(outline.contours, 1), 1)
         IN  [geometry |-> tessellate_fans(st.geometry, st.ids, outline.contours, 1, 0),
              ok |-> TRUE]

triangulate(outline, script) ==
    IF Outline2D_is_empty(outline)
    THEN Err(TriangulationFailed("Empty outline"), <<>>)
    ELSE LET t == tessellate_path(outline, script, VertexBuffers_new)
         IN  IF ~t.ok
             THEN Err(TriangulationFailed("Lyon tessellation failed"), <<>>)
             ELSE Ok([vertices |-> t.geometry.vertices,
                      indices |-> t.geometry.indices], <<>>)

\* ------------------------------------------------------------------------
\* glam::Vec3 at fixed point: a unit vector has length NormOne
\* ------------------------------------------------------------------------
NormOne == 1000
\* the largest component a vector is brought to before its length is taken
GuardMax == 20000

\* the value of every component of a NaN vector
NAN == -(4 * NormOne * GuardMax)
Vec3_ZERO == <<0, 0, 0>>
Vec3_NAN == <<NAN, NAN, NAN>>
IsNaN(v) == v[1] = NAN

Vec3_add(a, b) ==
    IF IsNaN(a) \/ IsNaN(b) THEN Vec3_NAN
    ELSE <<a[1] + b[1], a[2] + b[2], a[3] + b[3]>>
Vec3_sub(a, b) == <<a[1] - b[1], a[2] - b[2], a[3] - b[3]>>
Vec3_cross(a, b) ==
    <<a[2] * b[3] - a[3] * b[2], a[3] * b[1] - a[1] * b[3], a[1] * b[2] - a[2] * b[1]>>
Vec3_length_squared(v) == v[1] * v[1] + v[2] * v[2] + v[3] * v[3]

MaxAbs3(v) ==
    LET a == Abs(v[1])
        b == Abs(v[2])
        c == Abs(v[3])
    IN  IF a >= b /\ a >= c THEN a ELSE IF b >= c THEN b ELSE c

\* v brought to a largest component near GuardMax, direction kept
GuardedBy(v, m) ==
    IF m <= GuardMax
    THEN <<v[1] * (GuardMax \div m), v[2] * (GuardMax \div m), v[3] * (GuardMax \div m)>>
    ELSE <<TruncDiv(v[1], CeilDiv(m, GuardMax)), TruncDiv(v[2], CeilDiv(m, GuardMax)),
           TruncDiv(v[3], CeilDiv(m, GuardMax))>>

Guarded(v) == GuardedBy(v, MaxAbs3(v))

\* w * (1 / len), rounded to the fixed point
Vec3_over(w, len) ==
    <<RoundDiv(w[1] * NormOne, len), RoundDiv(w[2] * NormOne, len),
      RoundDiv(w[3] * NormOne, len)>>

UnitOf(w) == Vec3_over(w, Isqrt(Vec3_length_squared(w)))

\* v * (1 / |v|) for v # 0
Unit(v) == UnitOf(Guarded(v))

\* Vec3::normalize: self * length_recip(); 0 * inf is NaN
normalize(v) ==
    IF IsNaN(v) \/ v = Vec3_ZERO THEN Vec3_NAN ELSE Unit(v)

\* Vec3::normalize_or_zero: zero unless length_recip() is finite and positive
normalize_or_zero(v) ==
    IF IsNaN(v) \/ v = Vec3_ZERO THEN Vec3_ZERO ELSE Unit(v)

\* ------------------------------------------------------------------------
\* extrude.rs
\* ------------------------------------------------------------------------
\* 1e-10 = 1 / (DEGENERATE_DEN * DEGENERATE_DEN)
DEGENERATE_DEN == 100000
QUANTIZE == 10000

\* edge_len_sq < 1e-10 and prev_len_sq > 1e-10, on squared grid lengths
EdgeBelow(q) == q < CeilDiv(CeilDiv(Scale * Scale, DEGENERATE_DEN), DEGENERATE_DEN)
EdgeAbove(q) == q > ((Scale * Scale) \div DEGENERATE_DEN) \div DEGENERATE_DEN

normal_front == <<0, 0, NormOne>>
normal_back == <<0, 0, -NormOne>>

\* Vec3::new(-edge_dir.y, edge_dir.x, 0.0) with edge_dir = edge / |edge|
perpendicular(edge_dir) == <<-edge_dir[2], edge_dir[1], 0>>

edge_normal(edge_vec) == perpendicular(Unit(<<edge_vec[1], edge_vec[2], 0>>))

\* ((a + b) * 0.5).normalize_or_zero(); the factor 0.5 changes neither the
\* direction nor whether the sum is zero
average_normal(a, b) == normalize_or_zero(Vec3_add(a, b))

\* base_idx taken after the four vertices were pushed
base_idx_after_push(mesh_3d) == Len(mesh_3d.vertices) + 4

\* let base_idx = mesh_3d.vertices.len() as u32
base_idx_of(mesh_3d) == Len(mesh_3d.vertices)

\* the body of `for i in 0..num_points` for an edge that is neither the
\* `break` of an open contour nor skipped as degenerate
\* let prev_idx = if i == 0 { if closed { num_points - 1 } else { i } } else { i - 1 }
prev_idx_of(contour, i) ==
    IF i = 0 THEN (IF contour.closed THEN Len(contour.points) - 1 ELSE i) ELSE i - 1

\* let next_next = if closed { (next + 1) % num_points } else if next <
\* num_points - 1 { next + 1 } else { next }
next_next_of(contour, next) ==
    IF contour.closed THEN (next + 1) % Len(contour.points)
    ELSE IF next < Len(contour.points) - 1 THEN next + 1 ELSE next

\* if prev_len_sq > 1e-10 { average with the previous edge's normal }
smooth_p0(prev_edge, current_normal) ==
    IF EdgeAbove(length_squared(prev_edge))
    THEN average_normal(edge_normal(prev_edge), current_normal)
    ELSE current_normal

\* the end normal left as the edge's own normal
smooth_p1_raw(next_edge, current_normal) == current_normal

\* if next_len_sq > 1e-10 { average with the next edge's normal }
smooth_p1(next_edge, current_normal) ==
    IF EdgeAbove(length_squared(next_edge))
    THEN average_normal(current_normal, edge_normal(next_edge))
    ELSE current_normal

normal_p0_of(contour, i, current_normal) ==
    IF contour.closed \/ i > 0
    THEN smooth_p0(Vsub(contour.points[i + 1].point,
                        contour.points[prev_idx_of(contour, i) + 1].point),
                   current_normal)
    ELSE current_normal

normal_p1_of(contour, next, current_normal) ==
    IF contour.closed \/ next < Len(contour.points) - 1
    THEN smooth_p1(Vsub(contour.points[next_next_of(contour, next) + 1].point,
                        contour.points[next + 1].point),
                   current_normal)
    ELSE current_normal

\* the wall quad with its back vertices pushed in the order back-p0, back-p1
push_quad_back_p0_first(mesh_3d, p0, p1, normal_p0, normal_p1, half_depth, base_idx) ==
    [vertices |-> mesh_3d.vertices \o
                  << <<p0[1], p0[2], half_depth>>, <<p1[1], p1[2], half_depth>>,
                     <<p0[1], p0[2], -half_depth>>, <<p1[1], p1[2], -half_depth>> >>,
     indices |-> mesh_3d.indices \o
                 <<base_idx, base_idx + 1, base_idx + 2,
                   base_idx, base_idx + 2, base_idx + 3>>,
     normals |-> mesh_3d.normals \o <<normal_p0, normal_p1, normal_p0, normal_p1>>]

\* the four vertices, their normals and the two triangles of one wall quad
push_quad(mesh_3d, p0, p1, normal_p0, normal_p1, half_depth, base_idx) ==
    [vertices |-> mesh_3d.vertices \o
                  << <<p0[1], p0[2], half_depth>>, <<p1[1], p1[2], half_depth>>,
                     <<p1[1], p1[2], -half_depth>>, <<p0[1], p0[2], -half_depth>> >>,
     indices |-> mesh_3d.indices \o
                 <<base_idx, base_idx + 1, base_idx + 2,
                   base_idx, base_idx + 2, base_idx + 3>>,
     normals |-> mesh_3d.normals \o <<normal_p0, normal_p1, normal_p1, normal_p0>>]

side_face_with(mesh_3d, contour, i, next, half_depth, current_normal) ==
    push_quad(mesh_3d, contour.points[i + 1].point, contour.points[next + 1].point,
              normal_p0_of(contour, i, current_normal),
              normal_p1_of(contour, next, current_normal),
              half_depth, base_idx_of(mesh_3d))

side_face(mesh_3d, contour, i, next, half_depth) ==
    side_face_with(mesh_3d, contour, i, next, half_depth,
                   edge_normal(Vsub(contour.points[next + 1].point,
                                    contour.points[i + 1].point)))

\* for i in 0..num_points, from i on
RECURSIVE side_faces_of_contour(_, _, _, _)
side_faces_of_contour(mesh_3d, contour, i, half_depth) ==
    IF i >= Len(contour.points) THEN mesh_3d
    ELSE IF ~contour.closed /\ i = Len(contour.points) - 1 THEN mesh_3d
    ELSE IF EdgeBelow(length_squared(
                Vsub(contour.points[((i + 1) % Len(contour.points)) + 1].point,
                     contour.points[i + 1].point)))
    THEN side_faces_of_contour(mesh_3d, contour, i + 1, half_depth)
    ELSE side_faces_of_contour(
             CHOOSE m \in {side_face(mesh_3d, contour, i,
                                     (i + 1) % Len(contour.points), half_depth)} : TRUE,
             contour, i + 1, half_depth)

\* for contour in &outline.contours, from contour c on
RECURSIVE create_side_faces_from(_, _, _, _)
create_side_faces_from(mesh_3d, outline, c, half_depth) ==
    IF c > Len(outline.contours) THEN mesh_3d
    ELSE IF Len(outline.contours[c].points) < 2
    THEN create_side_faces_from(mesh_3d, outline, c + 1, half_depth)
    ELSE create_side_faces_from(
             side_faces_of_contour(mesh_3d, outline.contours[c], 0, half_depth),
             outline, c + 1, half_depth)

create_side_faces(mesh_3d, outline, half_depth) ==
    create_side_faces_from(mesh_3d, outline, 1, half_depth)

\* the back cap with the winding of the front cap
back_indices_unreversed(indices, back_offset) ==
    [j \in 1..(3 * (Len(indices) \div 3)) |-> back_offset + indices[j]]

\* for chunk in mesh_2d.indices.chunks_exact(3): the back cap, winding reversed
back_indices(indices, back_offset) ==
    [j \in 1..(3 * (Len(indices) \div 3)) |->
        back_offset + indices[3 * ((j - 1) \div 3)
                              + (IF (j - 1) % 3 = 0 THEN 1
                                 ELSE IF (j - 1) % 3 = 1 THEN 3 ELSE 2)]]

\* half_depth taken to be the whole depth
half_depth_whole(depth) == depth

\* let half_depth = depth / 2.0
half_depth_of(depth) == TruncDiv(depth, 2)

extrude(mesh_2d, outline, depth) ==
    LET half_depth == half_depth_of(depth)
        V == Len(mesh_2d.vertices)
        back_offset == V
        caps ==
            [vertices |->
                 [j \in 1..V |-> <<mesh_2d.vertices[j][1], mesh_2d.vertices[j][2], half_depth>>]
                 \o [j \in 1..V |->
                        <<mesh_2d.vertices[j][1], mesh_2d.vertices[j][2], -half_depth>>],
             indices |-> mesh_2d.indices \o back_indices(mesh_2d.indices, back_offset),
             normals |-> [j \in 1..V |-> normal_front] \o [j \in 1..V |-> normal_back]]
    IN  Ok(create_side_faces(caps, outline, half_depth), <<>>)

\* (vertex[k] * QUANTIZE) as i32, per axis
quantize_key(vertex) ==
    <<TruncDiv(vertex[1] * QUANTIZE, Scale), TruncDiv(vertex[2] * QUANTIZE, Scale),
      TruncDiv(vertex[3] * QUANTIZE, Scale)>>

\* edge1.cross(edge2).normalize() of the triangle chunk t (from 0)
face_normal(mesh, t) ==
    LET v0 == mesh.vertices[mesh.indices[3 * t + 1] + 1]
        v1 == mesh.vertices[mesh.indices[3 * t + 2] + 1]
        v2 == mesh.vertices[mesh.indices[3 * t + 3] + 1]
    IN  normalize(Vec3_cross(Vec3_sub(v1, v0), Vec3_sub(v2, v0)))

\* how often vertex v is a corner of triangle chunk t
corner_count(mesh, t, v) ==
    Cardinality({k \in 1..3 : mesh.indices[3 * t + k] = v})

RECURSIVE times(_, _)
times(n, x) == IF n = 0 THEN Vec3_ZERO ELSE Vec3_add(x, times(n - 1, x))

\* accumulated_normals[v] after the loop over the triangles t, t + 1, ...
RECURSIVE accumulate(_, _, _)
accumulate(mesh, v, t) ==
    IF 3 * t >= Len(mesh.indices) THEN Vec3_ZERO
    ELSE Vec3_add(times(corner_count(mesh, t, v), face_normal(mesh, t)),
                  accumulate(mesh, v, t + 1))

\* position_map[key of vertex v]: the vertices at v's quantized position
position_group(mesh, v) ==
    {u \in 0..(Len(mesh.vertices) - 1) :
        quantize_key(mesh.vertices[u + 1]) = quantize_key(mesh.vertices[v + 1])}

\* the accumulated normal of the first vertex of the group alone
group_sum_first(acc, group) ==
    IF group = {} THEN Vec3_ZERO
    ELSE acc[(CHOOSE x \in group : \A y \in group : x <= y) + 1]

RECURSIVE group_sum(_, _)
group_sum(acc, group) ==
    IF group = {} THEN Vec3_ZERO
    ELSE LET u == CHOOSE x \in group : \A y \in group : x <= y
         IN  Vec3_add(acc[u + 1], group_sum(acc, group \ {u}))

\* whether compute_smooth_normals reads or writes out of range: a chunk of
\* fewer than 3 indices, an index past the vertices, a normal written past
\* mesh.normals, or processed[i] read past the vertices
smooth_normals_panics(mesh) ==
    \/ Len(mesh.indices) % 3 # 0
    \/ \E j \in 1..Len(mesh.indices) : mesh.indices[j] >= Len(mesh.vertices)
    \/ Len(mesh.normals) > Len(mesh.vertices)
    \/ \E v \in (Len(mesh.normals) + 1)..Len(mesh.vertices) :
           \/ Cardinality(position_group(mesh, v - 1)) > 1
           \/ accumulate(mesh, v - 1, 0) # Vec3_ZERO

\* a panic is reported with the mesh as it was before the call
compute_smooth_normals(mesh) ==
    IF smooth_normals_panics(mesh) THEN [panic |-> TRUE, mesh |-> mesh]
    ELSE LET n == Len(mesh.vertices)
             acc == [v \in 1..n |-> accumulate(mesh, v - 1, 0)]
             smoothed(v) ==
                 LET group == position_group(mesh, v - 1)
                 IN  IF Cardinality(group) <= 1
                     THEN IF acc[v] # Vec3_ZERO THEN normalize(acc[v])
                          ELSE mesh.normals[v]
                     ELSE normalize(group_sum(acc, group))
         IN  [panic |-> FALSE,
              mesh |-> [mesh EXCEPT !.normals = [v \in 1..n |-> smoothed(v)]]]

\* ------------------------------------------------------------------------
\* glyph.rs: the outline extractor (ttf_parser::OutlineBuilder)
\* ------------------------------------------------------------------------
DEFAULT_QUALITY == 20

NoContour == [value |-> Contour_new(TRUE), some |-> FALSE]
SomeContour(contour) == [value |-> contour, some |-> TRUE]
NoPoint == [value |-> <<0, 0>>, some |-> FALSE]
SomePoint(point) == [value |-> point, some |-> TRUE]

OutlineExtractor_new(units_per_em) ==
    [outline |-> Outline2D_new, last_point |-> NoPoint,
     units_per_em |-> units_per_em, current_contour |-> NoContour]

\* Vec2::new(x * self.scale, y * self.scale), scale = 1 / units_per_em
OutlineExtractor_point(self, x, y) ==
    <<RoundDiv(x * Scale, self.units_per_em), RoundDiv(y * Scale, self.units_per_em)>>

\* push_point starting a contour when none is active
push_point_implicit(self, point) ==
    [self EXCEPT !.current_contour = SomeContour(Contour_push(@.value, point)),
                 !.last_point = SomePoint(point.point)]

push_point(self, point) ==
    IF self.current_contour.some
    THEN [self EXCEPT !.current_contour = SomeContour(Contour_push(@.value, point)),
                      !.last_point = SomePoint(point.point)]
    ELSE self

\* finish_contour without the take(): the contour stays current
finish_contour_kept(self) ==
    [self EXCEPT
        !.outline = IF self.current_contour.some
                       /\ ~Contour_is_empty(self.current_contour.value)
                    THEN Outline2D_add_contour(@, self.current_contour.value)
                    ELSE @,
        !.last_point = NoPoint]

finish_contour(self) ==
    [self EXCEPT
        !.outline = IF self.current_contour.some
                       /\ ~Contour_is_empty(self.current_contour.value)
                    THEN Outline2D_add_contour(@, self.current_contour.value)
                    ELSE @,
        !.current_contour = NoContour,
        !.last_point = NoPoint]

\* move_to starting its contour as an open one
move_to_open(self, x, y) ==
    LET finished == finish_contour(self)
        pt == OutlineExtractor_point(self, x, y)
    IN  [finished EXCEPT
            !.last_point = SomePoint(pt),
            !.current_contour =
                SomeContour(Contour_push(Contour_new(FALSE), ContourPoint_on_curve(pt)))]

move_to(self, x, y) ==
    LET finished == finish_contour(self)
        pt == OutlineExtractor_point(self, x, y)
    IN  [finished EXCEPT
            !.last_point = SomePoint(pt),
            !.current_contour =
                SomeContour(Contour_push(Contour_new(TRUE), ContourPoint_on_curve(pt)))]

line_to(self, x, y) ==
    push_point(self, ContourPoint_on_curve(OutlineExtractor_point(self, x, y)))

\* quad_to pushing the end point before the control point
quad_to_end_first(self, x1, y1, x, y) ==
    push_point(push_point(self, ContourPoint_on_curve(OutlineExtractor_point(self, x, y))),
               ContourPoint_off_curve(OutlineExtractor_point(self, x1, y1)))

quad_to(self, x1, y1, x, y) ==
    push_point(push_point(self, ContourPoint_off_curve(OutlineExtractor_point(self, x1, y1))),
               ContourPoint_on_curve(OutlineExtractor_point(self, x, y)))

curve_to(self, x1, y1, x2, y2, x, y) ==
    push_point(
        push_point(
            push_point(self, ContourPoint_off_curve(OutlineExtractor_point(self, x1, y1))),
            ContourPoint_off_curve(OutlineExtractor_point(self, x2, y2))),
        ContourPoint_on_curve(OutlineExtractor_point(self, x, y)))

close(self) == finish_contour(self)

\* ------------------------------------------------------------------------
\* The font: ttf_parser::Face as this program uses it.  A glyph is the
\* sequence of OutlineBuilder commands outline_glyph issues for it.
\* ------------------------------------------------------------------------
MoveTo(x, y) == [op |-> "move_to", args |-> <<x, y>>]
LineTo(x, y) == [op |-> "line_to", args |-> <<x, y>>]
QuadTo(x1, y1, x, y) == [op |-> "quad_to", args |-> <<x1, y1, x, y>>]
CurveTo(x1, y1, x2, y2, x, y) == [op |-> "curve_to", args |-> <<x1, y1, x2, y2, x, y>>]
Close == [op |-> "close", args |-> <<>>]

\* "A": a triangle of straight edges.  "o": one quadratic and its chord.
\* ".": three collinear points, which linearization empties.  " ": a glyph
\* without outline.  "?" has no glyph.
Chars == {"A", "o", ".", " ", "?"}

Glyphs ==
    [c \in Chars |->
        CASE c = "A" -> <<MoveTo(0, 0), LineTo(216, 0), LineTo(0, 216), Close>>
          [] c = "o" -> <<MoveTo(0, 0), QuadTo(18, 0, 36, 216), Close>>
          [] c = "." -> <<MoveTo(0, 0), LineTo(18, 0), LineTo(36, 0), Close>>
          [] OTHER -> <<>>]

\* font units per em: one font unit is one grid unit
TheFace == [units_per_em |-> Scale, cmap |-> Chars \ {"?"}, glyf |-> Glyphs]

\* Face::glyph_index: Option<GlyphId>; the glyph id of a char is the char
glyph_index(face, c) == [id |-> c, some |-> c \in face.cmap]

apply_command(builder, cmd) ==
    CASE cmd.op = "move_to" -> move_to(builder, cmd.args[1], cmd.args[2])
      [] cmd.op = "line_to" -> line_to(builder, cmd.args[1], cmd.args[2])
      [] cmd.op = "quad_to" ->
             quad_to(builder, cmd.args[1], cmd.args[2], cmd.args[3], cmd.args[4])
      [] cmd.op = "curve_to" ->
             curve_to(builder, cmd.args[1], cmd.args[2], cmd.args[3], cmd.args[4],
                      cmd.args[5], cmd.args[6])
      [] OTHER -> close(builder)

RECURSIVE apply_commands(_, _, _)
apply_commands(builder, commands, i) ==
    IF i > Len(commands) THEN builder
    ELSE apply_commands(apply_command(builder, commands[i]), commands, i + 1)

\* Face::outline_glyph: Option<Rect>, None for a glyph without outline
outline_glyph(face, glyph_id, builder) ==
    [some |-> Len(face.glyf[glyph_id]) > 0,
     builder |-> apply_commands(builder, face.glyf[glyph_id], 1)]

\* ------------------------------------------------------------------------
\* glyph.rs, font.rs, lib.rs: the conversions.  A stage the call enters is
\* appended to the result's stages.
\* ------------------------------------------------------------------------
\* the lookup miss reported as the wrong error kind
lookup_miss_as_no_outline(c) == NoOutline

\* .ok_or(FontMeshError::GlyphNotFound(character))
lookup_miss(c) == GlyphNotFound(c)

\* Result::and_then with the stage's name recorded: r? then f
Staged(r, stage, next) ==
    [tag |-> next.tag, value |-> next.value, stages |-> Append(r.stages, stage),
     payload |-> next.payload]

\* .ok_or(NoOutline)?; if outline.is_empty() { Err(NoOutline) } else { Ok(outline) }
extracted(og, stages) ==
    IF ~og.some THEN Err(NoOutline, Append(stages, "extract"))
    ELSE IF Outline2D_is_empty(og.builder.outline)
    THEN Err(NoOutline, Append(stages, "extract"))
    ELSE Ok(og.builder.outline, Append(stages, "extract"))

extract_outline(face, glyph_id, stages) ==
    extracted(outline_glyph(face, glyph_id, OutlineExtractor_new(face.units_per_em)),
              stages)

\* linearize_outline(outline, subdivisions) as a stage after r
linearized_after(r, l) ==
    IF l.tag = "Ok" THEN Ok(l.value, Append(r.stages, "linearize"))
    ELSE Err(Panicked, Append(r.stages, "linearize"))

then_linearize(r, subdivisions) ==
    IF r.tag # "Ok" THEN r
    ELSE linearized_after(r, linearize_outline(r.value, subdivisions))

\* triangulate(&outline) as a stage after r
then_triangulate(r, script) ==
    IF r.tag # "Ok" THEN r
    ELSE Staged(r, "triangulate", triangulate(r.value, script))

\* triangulate(&outline)? and extrude(&mesh_2d, &outline, depth) after r
\* extrude(&mesh_2d, &outline, depth) after the triangulation t of outline
then_extrude(t, outline, depth) ==
    IF t.tag # "Ok" THEN t
    ELSE Staged(t, "extrude", extrude(t.value, outline, depth))

then_triangulate_extrude(r, script, depth) ==
    IF r.tag # "Ok" THEN r
    ELSE then_extrude(Staged(r, "triangulate", triangulate(r.value, script)),
                      r.value, depth)

extract_and_linearize_outline(face, character, subdivisions) ==
    IF ~glyph_index(face, character).some
    THEN Err(lookup_miss(character), <<"lookup">>)
    ELSE then_linearize(
             extract_outline(face, glyph_index(face, character).id, <<"lookup">>),
             subdivisions)

char_to_mesh_2d(face, character, subdivisions, script) ==
    then_triangulate(extract_and_linearize_outline(face, character, subdivisions), script)

char_to_mesh_3d(face, character, depth, subdivisions, script) ==
    then_triangulate_extrude(
        extract_and_linearize_outline(face, character, subdivisions), script, depth)

\* Glyph::new and Font::glyph_by_char: Result<Glyph>
Glyph_new(face, character) ==
    IF ~glyph_index(face, character).some
    THEN Err(lookup_miss(character), <<"lookup">>)
    ELSE Ok([face |-> face, glyph_id |-> glyph_index(face, character).id,
             character |-> character],
            <<"lookup">>)

Font_glyph_by_char(font, c) == Glyph_new(font.face, c)

Glyph_outline(glyph, stages) == extract_outline(glyph.face, glyph.glyph_id, stages)

Glyph_linearize_with(glyph, subdivisions, stages) ==
    then_linearize(Glyph_outline(glyph, stages), subdivisions)

Glyph_linearize(glyph, stages) == Glyph_linearize_with(glyph, DEFAULT_QUALITY, stages)

Glyph_to_mesh_2d(glyph, stages, script) ==
    then_triangulate(Glyph_linearize(glyph, stages), script)

Glyph_to_mesh_3d(glyph, depth, stages, script) ==
    then_triangulate_extrude(Glyph_linearize(glyph, stages), script, depth)

GlyphMeshBuilder_to_mesh_2d(glyph, subdivisions, stages, script) ==
    then_triangulate(Glyph_linearize_with(glyph, subdivisions, stages), script)

GlyphMeshBuilder_to_mesh_3d(glyph, subdivisions, depth, stages, script) ==
    then_triangulate_extrude(Glyph_linearize_with(glyph, subdivisions, stages), script, depth)

\* glyph?.to_mesh_2d() and its siblings: `?` on the lookup's Result
lookup_then_to_mesh_2d(glyph, script) ==
    IF glyph.tag # "Ok" THEN glyph
    ELSE Glyph_to_mesh_2d(glyph.value, glyph.stages, script)

lookup_then_to_mesh_3d(glyph, depth, script) ==
    IF glyph.tag # "Ok" THEN glyph
    ELSE Glyph_to_mesh_3d(glyph.value, depth, glyph.stages, script)

lookup_then_builder_2d(glyph, subdivisions, script) ==
    IF glyph.tag # "Ok" THEN glyph
    ELSE GlyphMeshBuilder_to_mesh_2d(glyph.value, subdivisions, glyph.stages, script)

lookup_then_builder_3d(glyph, subdivisions, depth, script) ==
    IF glyph.tag # "Ok" THEN glyph
    ELSE GlyphMeshBuilder_to_mesh_3d(glyph.value, subdivisions, depth, glyph.stages,
                                     script)

Font_glyph_to_mesh_2d(font, character, script) ==
    lookup_then_to_mesh_2d(Font_glyph_by_char(font, character), script)

Font_glyph_to_mesh_3d(font, character, depth, script) ==
    lookup_then_to_mesh_3d(Font_glyph_by_char(font, character), depth, script)

\* the arms `Err(NoOutline) => Ok(())` and `Err(e) => Err(e)` replaced by
\* one arm that propagates every error
reuse_outline_error_propagated(o) == o

\* Err(FontMeshError::NoOutline) => Ok(()), Err(e) => Err(e)
reuse_outline_error(o) ==
    IF o.tag = "NoOutline" THEN Ok(NoValue, o.stages) ELSE o

\* what a _reuse conversion leaves: its Result<()> and *mesh, which is the
\* new mesh if one was built and the cleared buffer otherwise
Reused(r, cleared, built) ==
    [res |-> [r EXCEPT !.value = NoValue],
     mesh |-> IF built /\ r.tag = "Ok" THEN r.value ELSE cleared]

\* match glyph.outline() { Ok(o) => o, Err(NoOutline) => return Ok(()), .. }
\* and then linearize, triangulate and the assignment to *mesh
reuse_outline_2d(o, quality, cleared, script) ==
    IF o.tag # "Ok" THEN Reused(reuse_outline_error(o), cleared, FALSE)
    ELSE Reused(then_triangulate(then_linearize(o, Quality_value(quality)), script),
                cleared, TRUE)

reuse_outline_3d(o, quality, depth, cleared, script) ==
    IF o.tag # "Ok" THEN Reused(reuse_outline_error(o), cleared, FALSE)
    ELSE Reused(then_triangulate_extrude(then_linearize(o, Quality_value(quality)),
                                         script, depth),
                cleared, TRUE)

reuse_glyph_2d(glyph, quality, cleared, script) ==
    IF glyph.tag # "Ok" THEN Reused(glyph, cleared, FALSE)
    ELSE reuse_outline_2d(Glyph_outline(glyph.value, glyph.stages), quality, cleared,
                          script)

reuse_glyph_3d(glyph, quality, depth, cleared, script) ==
    IF glyph.tag # "Ok" THEN Reused(glyph, cleared, FALSE)
    ELSE reuse_outline_3d(Glyph_outline(glyph.value, glyph.stages), quality, depth,
                          cleared, script)

Font_glyph_to_mesh_2d_reuse(font, c, quality, mesh, script) ==
    reuse_glyph_2d(Font_glyph_by_char(font, c), quality, Mesh2D_clear(mesh), script)

Font_glyph_to_mesh_3d_reuse(font, c, quality, depth, mesh, script) ==
    reuse_glyph_3d(Font_glyph_by_char(font, c), quality, depth, Mesh3D_clear(mesh),
                   script)

\* ------------------------------------------------------------------------
\* Linearizer: an outline is assembled, then linearize_outline runs on it
\* ------------------------------------------------------------------------
\* grid points the input contours are drawn from
LinPoints == {<<0, 0>>, <<18, 0>>, <<36, 216>>}

\* subdivisions: the presets of Quality (10, 20, 50) and the ends of u8
Subdivs == {0, 10, 20, 50, 255}

NoResult == [tag |-> "None", value |-> Outline2D_new]

RECURSIVE PointCount(_, _)
PointCount(contours, i) ==
    IF i > Len(contours) THEN 0
    ELSE Len(contours[i].points) + PointCount(contours, i + 1)

InitLin ==
    /\ lin_outline = Outline2D_new
    /\ lin_called = FALSE
    /\ lin_res = [s \in Subdivs |-> NoResult]

\* Outline2D::add_contour(Contour::new(closed))
LinAddContour(closed) ==
    /\ ~lin_called
    /\ Len(lin_outline.contours) < MaxContours
    /\ lin_outline' = Outline2D_add_contour(lin_outline, Contour_new(closed))
    /\ UNCHANGED <<lin_called, lin_res>>
    /\ UNCHANGED <<triVars, meshVars, pipeVars, unitVars>>

\* Contour::push on the contour added last
LinPush(p, on) ==
    /\ ~lin_called
    /\ Len(lin_outline.contours) > 0
    /\ PointCount(lin_outline.contours, 1) < MaxPts
    /\ lin_outline' =
         [lin_outline EXCEPT !.contours[Len(lin_outline.contours)] =
             Contour_push(@, ContourPoint_new(p, on))]
    /\ UNCHANGED <<lin_called, lin_res>>
    /\ UNCHANGED <<triVars, meshVars, pipeVars, unitVars>>

\* linearize_outline(outline, subdivisions), for each subdivisions value
LinearizeOutline ==
    /\ ~lin_called
    /\ lin_called' = TRUE
    /\ lin_res' = [s \in Subdivs |-> linearize_outline(lin_outline, s)]
    /\ UNCHANGED lin_outline
    /\ UNCHANGED <<triVars, meshVars, pipeVars, unitVars>>

NextLin ==
    \/ \E closed \in BOOLEAN : LinAddContour(closed)
    \/ \E p \in LinPoints, on \in BOOLEAN : LinPush(p, on)
    \/ LinearizeOutline

\* ------------------------------------------------------------------------
\* Triangulation: triangulate runs, the tessellator calls back into
\* SimpleBuffersBuilder, and the buffers become the Mesh2D
\* ------------------------------------------------------------------------
\* the outline under triangulation: empty, or one closed triangle
TriPoints == <<<<0, 0>>, <<2, 0>>, <<0, 2>>>>
TriOutline ==
    [contours |-> <<[closed |-> TRUE,
                     points |-> [j \in 1..3 |-> ContourPoint_on_curve(TriPoints[j])]]>>]
TriOutlines == {Outline2D_new, TriOutline}

NoCall == [tag |-> "None", value |-> NoValue, stages |-> <<>>, payload |-> ""]

InitTri ==
    /\ tri_run = "idle"
    /\ tri_geometry = VertexBuffers_new
    /\ tri_ids = <<>>
    /\ tri_triangles = 0
    /\ tri_res = NoCall

\* triangulate(&outline) up to the call of tessellate_path
TriBegin(outline) ==
    /\ tri_run = "idle"
    /\ IF Outline2D_is_empty(outline)
       THEN /\ tri_run' = "done"
            /\ tri_res' = Err(TriangulationFailed("Empty outline"), <<>>)
       ELSE /\ tri_run' = "tessellating"
            /\ tri_res' = tri_res
    /\ UNCHANGED <<tri_geometry, tri_ids, tri_triangles>>
    /\ UNCHANGED <<linVars, meshVars, pipeVars, unitVars>>

\* the tessellator calls add_fill_vertex; the k-th call carries the k-th
\* outline point (cyclically)
TriAddFillVertex ==
    /\ tri_run = "tessellating"
    /\ Len(tri_geometry.vertices) < MaxTriVerts
    /\ LET r == add_fill_vertex(tri_geometry,
                                TriPoints[(Len(tri_geometry.vertices) % 3) + 1])
       IN  /\ tri_geometry' = r.geometry
           /\ tri_ids' = Append(tri_ids, r.id)
    /\ UNCHANGED <<tri_run, tri_triangles, tri_res>>
    /\ UNCHANGED <<linVars, meshVars, pipeVars, unitVars>>

\* the tessellator calls add_triangle with ids add_fill_vertex returned
TriAddTriangle(i, j, k) ==
    /\ tri_run = "tessellating"
    /\ tri_triangles < MaxTris
    /\ tri_geometry' = add_triangle(tri_geometry, tri_ids[i], tri_ids[j], tri_ids[k])
    /\ tri_triangles' = tri_triangles + 1
    /\ UNCHANGED <<tri_run, tri_ids, tri_res>>
    /\ UNCHANGED <<linVars, meshVars, pipeVars, unitVars>>

\* tessellate_path returns Ok: the buffers become the Mesh2D
TriEndOk ==
    /\ tri_run = "tessellating"
    /\ tri_run' = "done"
    /\ tri_res' = Ok([vertices |-> tri_geometry.vertices,
                      indices |-> tri_geometry.indices], <<>>)
    /\ UNCHANGED <<tri_geometry, tri_ids, tri_triangles>>
    /\ UNCHANGED <<linVars, meshVars, pipeVars, unitVars>>

\* tessellate_path returns Err: map_err to TriangulationFailed
TriEndErr ==
    /\ tri_run = "tessellating"
    /\ tri_run' = "done"
    /\ tri_res' = Err(TriangulationFailed("Lyon tessellation failed"), <<>>)
    /\ UNCHANGED <<tri_geometry, tri_ids, tri_triangles>>
    /\ UNCHANGED <<linVars, meshVars, pipeVars, unitVars>>

NextTri ==
    \/ \E outline \in TriOutlines : TriBegin(outline)
    \/ TriAddFillVertex
    \/ \E i, j, k \in 1..Len(tri_ids) : TriAddTriangle(i, j, k)
    \/ TriEndOk
    \/ TriEndErr

\* ------------------------------------------------------------------------
\* The conversions on a font, and the caller-owned buffers
\* ------------------------------------------------------------------------
TheFont == [face |-> TheFace]
Qualities == {"Low", "Normal"}
PipeSubdivs == {10, 20}
Depths == {0, 4}

InitPipe ==
    /\ mesh2 = Mesh2D_new
    /\ pipe_call = [character |-> "", entry |-> "none"]
    /\ pipe_res = NoCall
    /\ buf_dirty = FALSE

InitMesh ==
    /\ mesh3 = Mesh3D_new
    /\ mesh_panic = FALSE

\* a conversion that returns its mesh: the call and its Result are recorded
Returned(entry, c, r) ==
    /\ pipe_call' = [character |-> c, entry |-> entry]
    /\ pipe_res' = r
    /\ UNCHANGED <<mesh2, buf_dirty, meshVars, linVars, triVars, unitVars>>

CharToMesh2d(c, subdivisions, script) ==
    Returned("char_to_mesh_2d", c, char_to_mesh_2d(TheFace, c, subdivisions, script))

CharToMesh3d(c, depth, subdivisions, script) ==
    Returned("char_to_mesh_3d", c, char_to_mesh_3d(TheFace, c, depth, subdivisions, script))

\* Glyph::new(face, c)?.to_mesh_2d()
GlyphToMesh2d(c, script) ==
    Returned("Glyph::to_mesh_2d", c,
             lookup_then_to_mesh_2d(Glyph_new(TheFace, c), script))

\* Glyph::new(face, c)?.to_mesh_3d(depth)
GlyphToMesh3d(c, depth, script) ==
    Returned("Glyph::to_mesh_3d", c,
             lookup_then_to_mesh_3d(Glyph_new(TheFace, c), depth, script))

\* font.glyph_by_char(c)?.with_subdivisions(subdivisions).to_mesh_2d()
BuilderToMesh2d(c, subdivisions, script) ==
    Returned("GlyphMeshBuilder::to_mesh_2d", c,
             lookup_then_builder_2d(Font_glyph_by_char(TheFont, c), subdivisions,
                                    script))

\* font.glyph_by_char(c)?.with_subdivisions(subdivisions).to_mesh_3d(depth)
BuilderToMesh3d(c, subdivisions, depth, script) ==
    Returned("GlyphMeshBuilder::to_mesh_3d", c,
             lookup_then_builder_3d(Font_glyph_by_char(TheFont, c), subdivisions,
                                    depth, script))

FontGlyphToMesh2d(c, script) ==
    Returned("Font::glyph_to_mesh_2d", c, Font_glyph_to_mesh_2d(TheFont, c, script))

FontGlyphToMesh3d(c, depth, script) ==
    Returned("Font::glyph_to_mesh_3d", c, Font_glyph_to_mesh_3d(TheFont, c, depth, script))

\* the arguments of a _reuse call
ReuseArgs(script, depth, quality) ==
    [script |-> script, depth |-> depth, quality |-> quality]

\* a _reuse conversion has written the caller's Mesh2D
Reused2d(c, args, r) ==
    /\ mesh2' = r.mesh
    /\ pipe_res' = r.res
    /\ pipe_call' = [args |-> args, character |-> c,
                     entry |-> "Font::glyph_to_mesh_2d_reuse"]
    /\ buf_dirty' = ~Mesh2D_is_empty(mesh2)
    /\ UNCHANGED <<meshVars, linVars, triVars, unitVars>>

\* a _reuse conversion has written the caller's Mesh3D
Reused3d(c, args, r) ==
    /\ mesh3' = r.mesh
    /\ pipe_res' = r.res
    /\ pipe_call' = [args |-> args, character |-> c,
                     entry |-> "Font::glyph_to_mesh_3d_reuse"]
    /\ buf_dirty' = ~Mesh3D_is_empty(mesh3)
    /\ UNCHANGED <<mesh2, mesh_panic, linVars, triVars, unitVars>>

FontGlyphToMesh2dReuse(c, quality, script) ==
    Reused2d(c, ReuseArgs(script, 0, quality),
             Font_glyph_to_mesh_2d_reuse(TheFont, c, quality, mesh2, script))

FontGlyphToMesh3dReuse(c, quality, depth, script) ==
    Reused3d(c, ReuseArgs(script, depth, quality),
             Font_glyph_to_mesh_3d_reuse(TheFont, c, quality, depth, mesh3, script))

NextPipe ==
    \/ \E c \in Chars, s \in PipeSubdivs, t \in TessScripts : CharToMesh2d(c, s, t)
    \/ \E c \in Chars, d \in Depths, s \in PipeSubdivs, t \in TessScripts :
           CharToMesh3d(c, d, s, t)
    \/ \E c \in Chars, t \in TessScripts : GlyphToMesh2d(c, t)
    \/ \E c \in Chars, d \in Depths, t \in TessScripts : GlyphToMesh3d(c, d, t)
    \/ \E c \in Chars, s \in PipeSubdivs, t \in TessScripts : BuilderToMesh2d(c, s, t)
    \/ \E c \in Chars, s \in PipeSubdivs, d \in Depths, t \in TessScripts :
           BuilderToMesh3d(c, s, d, t)
    \/ \E c \in Chars, t \in TessScripts : FontGlyphToMesh2d(c, t)
    \/ \E c \in Chars, d \in Depths, t \in TessScripts : FontGlyphToMesh3d(c, d, t)
    \/ \E c \in Chars, q \in Qualities, t \in TessScripts : FontGlyphToMesh2dReuse(c, q, t)
    \/ \E c \in Chars, q \in Qualities, d \in Depths, t \in TessScripts :
           FontGlyphToMesh3dReuse(c, q, d, t)

\* ------------------------------------------------------------------------
\* A Mesh3D: created empty, filled by extrude or a _reuse conversion,
\* post-processed by compute_smooth_normals, cleared
\* ------------------------------------------------------------------------
\* grid points of the outlines handed to extrude: a corner, and points on
\* one line for edges that reverse
ExtPoints == {<<0, 0>>, <<2, 0>>, <<1, 0>>, <<0, 2>>}

\* the contours of at most MaxExtPts on-curve points
ExtContours ==
    UNION {{[closed |-> closed, points |-> [j \in 1..n |-> ContourPoint_on_curve(f[j])]] :
               f \in [1..n -> ExtPoints], closed \in BOOLEAN} : n \in 0..MaxExtPts}

\* Mesh2D inputs: empty, and one triangle
ExtMeshes ==
    {Mesh2D_new, [vertices |-> <<<<0, 0>>, <<2, 0>>, <<0, 2>>>>, indices |-> <<0, 1, 2>>]}

\* an operation on mesh3 that is no conversion: the call is recorded
Called(entry, r) ==
    /\ pipe_call' = [character |-> "", entry |-> entry]
    /\ pipe_res' = [r EXCEPT !.value = NoValue]
    /\ UNCHANGED <<mesh2, buf_dirty, linVars, triVars, unitVars>>

MeshClear ==
    /\ mesh3' = Mesh3D_clear(mesh3)
    /\ Called("Mesh3D::clear", Ok(NoValue, <<>>))
    /\ UNCHANGED mesh_panic

\* mesh = extrude(&mesh_2d, &outline, depth)?
Extruded(r) ==
    /\ mesh3' = r.value
    /\ Called("extrude", r)
    /\ UNCHANGED mesh_panic

Extrude(mesh_2d, contour, depth) ==
    /\ Mesh3D_is_empty(mesh3)
    /\ Extruded(extrude(mesh_2d, Outline2D_add_contour(Outline2D_new, contour), depth))

Smoothed(r) ==
    /\ mesh3' = r.mesh
    /\ mesh_panic' = (mesh_panic \/ r.panic)
    /\ Called("compute_smooth_normals", Ok(NoValue, <<>>))

ComputeSmoothNormals == Smoothed(compute_smooth_normals(mesh3))

NextMesh ==
    \/ MeshClear
    \/ \E m \in ExtMeshes, c \in ExtContours, d \in Depths : Extrude(m, c, d)
    \/ \E c \in Chars, q \in Qualities, d \in Depths, t \in TessScripts :
           FontGlyphToMesh3dReuse(c, q, d, t)
    \/ ComputeSmoothNormals

\* ------------------------------------------------------------------------
\* The outline extractor under an arbitrary sequence of OutlineBuilder
\* commands.  The j-th coordinate pair of the k-th command is CmdXY(k, j),
\* so that every point names the command it came from.
\* ------------------------------------------------------------------------
CmdXY(k, j) == <<10 * k + j, k>>

InitExt ==
    /\ extractor = OutlineExtractor_new(Scale)
    /\ ext_cmds = <<>>

\* the extractor after a command, and the command recorded
Commanded(op, self) ==
    /\ Len(ext_cmds) < MaxCmds
    /\ extractor' = self
    /\ ext_cmds' = Append(ext_cmds, op)
    /\ UNCHANGED <<linVars, triVars, pipeVars, meshVars, exVars, smVars, qbVars, rcVars>>

ExtMoveTo(p) == Commanded("move_to", move_to(extractor, p[1], p[2]))

ExtLineTo(p) == Commanded("line_to", line_to(extractor, p[1], p[2]))

ExtQuadTo(p1, p) == Commanded("quad_to", quad_to(extractor, p1[1], p1[2], p[1], p[2]))

ExtCurveTo(p1, p2, p) ==
    Commanded("curve_to", curve_to(extractor, p1[1], p1[2], p2[1], p2[2], p[1], p[2]))

ExtClose == Commanded("close", close(extractor))

NextExt ==
    \/ \E k \in {Len(ext_cmds) + 1} : ExtMoveTo(CmdXY(k, 1))
    \/ \E k \in {Len(ext_cmds) + 1} : ExtLineTo(CmdXY(k, 1))
    \/ \E k \in {Len(ext_cmds) + 1} : ExtQuadTo(CmdXY(k, 1), CmdXY(k, 2))
    \/ \E k \in {Len(ext_cmds) + 1} : ExtCurveTo(CmdXY(k, 1), CmdXY(k, 2), CmdXY(k, 3))
    \/ ExtClose

\* ------------------------------------------------------------------------
\* linearize_contour step by step: one action per loop iteration
\* ------------------------------------------------------------------------
\* the contours of at most MaxSmPts points, on-curve or off-curve
SmContours ==
    UNION {{[closed |-> closed,
             points |-> [j \in 1..n |-> ContourPoint_new(f[j], g[j])]] :
               f \in [1..n -> LinPoints], g \in [1..n -> BOOLEAN],
               closed \in BOOLEAN} : n \in 0..MaxSmPts}

\* subdivisions: none, and the presets Low and Normal
SmSubdivs == {0, 10, 20}

NoAcc == [points |-> <<>>, state |-> LinearizeState_Initial]
NoSt == [points |-> <<>>, panic |-> FALSE, write_idx |-> 1]

\* calls: linearize_qbezier calls; mids: implicit midpoints pushed;
\* visits: iterations of the compaction loop; pops: points popped
NoWork == [calls |-> 0, mids |-> 0, visits |-> 0, pops |-> 0]

InitSm ==
    /\ sm_contour = Contour_new(FALSE)
    /\ sm_subdivisions = 0
    /\ sm_pc = "idle"
    /\ sm_i = 0
    /\ sm_acc = NoAcc
    /\ sm_st = NoSt
    /\ sm_work = NoWork

SmOthers == <<linVars, triVars, pipeVars, meshVars, extVars, exVars, qbVars, rcVars>>

\* linearize_contour(contour, subdivisions) is entered: a contour of fewer
\* than 2 points is returned as it is
SmEntered(contour, subdivisions) ==
    /\ sm_contour' = contour
    /\ sm_subdivisions' = subdivisions
    /\ IF Len(contour.points) < 2
       THEN /\ sm_pc' = "done"
            /\ sm_st' = [NoSt EXCEPT !.points = contour.points]
       ELSE /\ sm_pc' = "loop"
            /\ sm_st' = sm_st
    /\ UNCHANGED <<sm_i, sm_acc, sm_work, SmOthers>>

SmBegin ==
    /\ sm_pc = "idle"
    /\ \E contour \in SmContours, subdivisions \in SmSubdivs :
           SmEntered(contour, subdivisions)

\* one iteration of `for i in 0..n`
SmStep ==
    /\ sm_pc = "loop"
    /\ sm_i < Len(sm_contour.points)
    /\ sm_acc' = linearize_step(sm_acc, sm_contour.points[sm_i + 1], sm_subdivisions)
    /\ sm_i' = sm_i + 1
    /\ sm_work' =
         [sm_work EXCEPT
            !.calls = @ + (IF sm_acc.state.tag = "OffCurve" THEN 1 ELSE 0),
            !.mids = @ + (IF sm_acc.state.tag = "OffCurve"
                             /\ ~sm_contour.points[sm_i + 1].on_curve
                          THEN 1 ELSE 0)]
    /\ UNCHANGED <<sm_contour, sm_subdivisions, sm_pc, sm_st, SmOthers>>

\* remove_collinear_points is entered with the points pushed so far
SmSimplify(points) ==
    /\ sm_acc' = [sm_acc EXCEPT !.points = points]
    /\ IF Len(points) < 3
       THEN /\ sm_pc' = "done"
            /\ sm_st' = [NoSt EXCEPT !.points = points]
            /\ sm_i' = sm_i
       ELSE /\ sm_pc' = "collinear"
            /\ sm_st' = [points |-> points, panic |-> FALSE, write_idx |-> 1]
            /\ sm_i' = 1

\* the loop is over: the closing curve, then remove_collinear_points
SmClose ==
    /\ sm_pc = "loop"
    /\ sm_i = Len(sm_contour.points)
    /\ SmSimplify(closing_curve(sm_contour, sm_subdivisions, sm_acc))
    /\ sm_work' =
         [sm_work EXCEPT
            !.calls = @ + (IF sm_acc.state.tag = "OffCurve" /\ sm_contour.closed
                           THEN 1 ELSE 0)]
    /\ UNCHANGED <<sm_contour, sm_subdivisions, SmOthers>>

\* one iteration of `for read_idx in 1..n - 1`
SmCollinear ==
    /\ sm_pc = "collinear"
    /\ sm_i < collinear_stop(Len(sm_acc.points))
    /\ sm_st' = collinear_step(sm_st, sm_i)
    /\ sm_i' = sm_i + 1
    /\ sm_work' = [sm_work EXCEPT !.visits = @ + 1]
    /\ UNCHANGED <<sm_contour, sm_subdivisions, sm_pc, sm_acc, SmOthers>>

\* the compaction loop is over: the last point is kept, the vector truncated
SmKeepLast ==
    /\ sm_pc = "collinear"
    /\ sm_i >= collinear_stop(Len(sm_acc.points))
    /\ IF sm_st.panic \/ ~InRange(sm_st.points, sm_st.write_idx)
       THEN /\ sm_pc' = "panic"
            /\ sm_st' = [sm_st EXCEPT !.panic = TRUE]
       ELSE /\ sm_pc' = "dedup"
            /\ sm_st' = [sm_st EXCEPT
                           !.points = keep_last(Len(sm_acc.points), sm_st)]
    /\ UNCHANGED <<sm_contour, sm_subdivisions, sm_i, sm_acc, sm_work, SmOthers>>

\* one iteration of the `while` that pops: contour.points.pop()
SmPop ==
    /\ sm_pc = "dedup"
    /\ Len(sm_st.points) > 1
    /\ ~ends_apart(sm_st.points)
    /\ sm_st' = [sm_st EXCEPT !.points = SubSeq(@, 1, Len(@) - 1)]
    /\ sm_work' = [sm_work EXCEPT !.pops = @ + 1]
    /\ UNCHANGED <<sm_contour, sm_subdivisions, sm_pc, sm_i, sm_acc, SmOthers>>

\* the `while` is left; fewer than 3 points are truncated away; return
SmReturn ==
    /\ sm_pc = "dedup"
    /\ ~(Len(sm_st.points) > 1 /\ ~ends_apart(sm_st.points))
    /\ sm_st' = [sm_st EXCEPT !.points = truncate_short(@).points]
    /\ sm_pc' = "done"
    /\ UNCHANGED <<sm_contour, sm_subdivisions, sm_i, sm_acc, sm_work, SmOthers>>

\* the steps of a call that has been entered
SmRun == SmStep \/ SmClose \/ SmCollinear \/ SmKeepLast \/ SmPop \/ SmReturn

NextSm ==
    \/ SmBegin
    \/ SmStep
    \/ SmClose
    \/ SmCollinear
    \/ SmKeepLast
    \/ SmPop
    \/ SmReturn

\* ------------------------------------------------------------------------
\* extrude as a function of its arguments: one call, its arguments kept
\* ------------------------------------------------------------------------
\* Mesh2D inputs: empty, one triangle, and the two triangles of a square
ExMeshes ==
    ExtMeshes \cup {[vertices |-> <<<<0, 0>>, <<2, 0>>, <<2, 2>>, <<0, 2>>>>,
                     indices |-> <<0, 1, 2, 0, 2, 3>>]}

\* outlines: every one contour of ExtContours, and every two contours of at
\* most 2 points each
ExOutlines ==
    {[contours |-> <<c>>] : c \in ExtContours}
    \cup {[contours |-> <<c1, c2>>] :
             c1, c2 \in {c \in ExtContours : Len(c.points) <= 2}}

InitEx ==
    /\ ex_in = [outline |-> Outline2D_new, depth |-> 0, mesh_2d |-> Mesh2D_new]
    /\ ex_out = NoCall

\* extrude(&mesh_2d, &outline, depth)
ExtrudeCall(mesh_2d, outline, depth) ==
    /\ ex_out.tag = "None"
    /\ ex_in' = [outline |-> outline, depth |-> depth, mesh_2d |-> mesh_2d]
    /\ ex_out' = extrude(mesh_2d, outline, depth)
    /\ UNCHANGED <<linVars, triVars, pipeVars, meshVars, extVars, smVars, qbVars, rcVars>>

NextEx ==
    \E m \in ExMeshes, o \in ExOutlines, d \in Depths : ExtrudeCall(m, o, d)

\* ------------------------------------------------------------------------
\* linearize_qbezier as a function of its arguments: one call
\* ------------------------------------------------------------------------
\* control polygons: flat, slightly bent, bent by up to a quarter turn and
\* folded back, with coincident points among them
QbPoints == {<<0, 0>>, <<18, 0>>, <<36, 216>>, <<18, 18>>, <<0, 400>>}

InitQb ==
    /\ qb_in = <<>>
    /\ qb_out = <<>>

\* linearize_qbezier(p0, p1, p2, subdivisions, &mut result), result empty
QbCall(p0, p1, p2, subdivisions) ==
    /\ qb_in' = <<p0, p1, p2, subdivisions>>
    /\ qb_out' = linearize_qbezier(p0, p1, p2, subdivisions, <<>>)
    /\ UNCHANGED <<linVars, triVars, pipeVars, meshVars, extVars, exVars, smVars, rcVars>>

NextQb ==
    /\ qb_in = <<>>
    /\ \E p0 \in QbPoints, p1 \in QbPoints, p2 \in QbPoints, subdivisions \in Subdivs :
           QbCall(p0, p1, p2, subdivisions)

\* ------------------------------------------------------------------------
\* remove_collinear_points on points closer to each other than EPSILON.
\* Coordinates are in units of EPSILON here: d.abs() > EPSILON is |d| > 1,
\* a squared side below EPSILON * EPSILON is 0, and an area above EPSILON
\* (EPSILON_DEN squared units) is a doubled area above 2 * EPSILON_DEN.
\* ------------------------------------------------------------------------
\* the origin, two points one EPSILON from it, and points 0.5 and 4 away
RcPoints == {<<0, 0>>, <<1, 0>>, <<0, 1>>, <<50000, 4000>>, <<400000, 0>>}

MaxRcPts == 5

\* triangle_area, doubled
triangle_area2_fine(p0, p1, p2) ==
    IF p0 = p1 \/ p1 = p2 \/ p2 = p0 THEN 0
    ELSE Abs(Cross2(Vsub(p1, p0), Vsub(p2, p0)))

\* one iteration of `for read_idx in 1..n - 1`
collinear_step_fine(st, read_idx) ==
    IF triangle_area2_fine(At(st.points, st.write_idx - 1).point,
                           At(st.points, read_idx).point,
                           At(st.points, read_idx + 1).point) > 2 * EPSILON_DEN
    THEN [points |-> IF st.write_idx # read_idx
                     THEN [st.points EXCEPT ![st.write_idx + 1] = At(st.points, read_idx)]
                     ELSE st.points,
          panic |-> FALSE,
          write_idx |-> st.write_idx + 1]
    ELSE st

RECURSIVE collinear_loop_fine(_, _, _)
collinear_loop_fine(st, read_idx, stop) ==
    IF read_idx >= stop THEN st
    ELSE collinear_loop_fine(
             CHOOSE r \in {collinear_step_fine(st, read_idx)} : TRUE,
             read_idx + 1, stop)

\* if diff.x.abs() > EPSILON || diff.y.abs() > EPSILON { break }
ends_apart_fine(points) ==
    LET first == At(points, 0).point
        last == At(points, Len(points) - 1).point
        diff == Vsub(last, first)
    IN  Abs(diff[1]) > 1 \/ Abs(diff[2]) > 1

\* the loop left after one pop at most
dedup_once_fine(points, pops) ==
    IF Len(points) > 1 /\ ~ends_apart_fine(points)
    THEN [points |-> SubSeq(points, 1, Len(points) - 1), pops |-> pops + 1]
    ELSE [points |-> points, pops |-> pops]

\* the `while` that pops, the pops counted
RECURSIVE dedup_loop_fine(_, _)
dedup_loop_fine(points, pops) ==
    IF Len(points) > 1 /\ ~ends_apart_fine(points)
    THEN dedup_loop_fine(SubSeq(points, 1, Len(points) - 1), pops + 1)
    ELSE [points |-> points, pops |-> pops]

\* the collinearity pass: the loop, the last point kept, the truncation
collinear_pass_fine(points) ==
    keep_last(Len(points),
        collinear_loop_fine([points |-> points, panic |-> FALSE, write_idx |-> 1],
                            1, collinear_stop(Len(points))))

\* remove_collinear_points up to the end of the `while`
remove_collinear_points_fine(points) ==
    IF Len(points) < 3 THEN [points |-> points, pops |-> 0]
    ELSE dedup_loop_fine(collinear_pass_fine(points), 0)

InitRc ==
    /\ rc_in = <<>>
    /\ rc_out = [points |-> <<>>, pops |-> 0]

\* remove_collinear_points(&mut contour)
RcCall(points) ==
    /\ rc_in' = points
    /\ rc_out' = remove_collinear_points_fine(points)
    /\ UNCHANGED <<linVars, triVars, pipeVars, meshVars, extVars, exVars, smVars, qbVars>>

NextRc ==
    /\ rc_in = <<>>
    /\ \E n \in 1..MaxRcPts : \E f \in [1..n -> RcPoints] :
           RcCall([j \in 1..n |-> ContourPoint_on_curve(f[j])])

Init == InitLin /\ InitTri /\ InitPipe /\ InitMesh /\ InitExt /\ InitEx /\ InitSm /\ InitQb /\ InitRc

SpecLin == Init /\ [][NextLin]_vars
SpecTri == Init /\ [][NextTri]_vars
SpecPipe == Init /\ [][NextPipe]_vars
SpecMesh == Init /\ [][NextMesh]_vars
SpecExt == Init /\ [][NextExt]_vars
SpecEx == Init /\ [][NextEx]_vars
SpecSm == Init /\ [][NextSm]_vars
SpecQb == Init /\ [][NextQb]_vars
SpecRc == Init /\ [][NextRc]_vars

\* a call that has been entered keeps executing
SpecSmFair == SpecSm /\ WF_vars(SmRun)

\* ------------------------------------------------------------------------
\* Properties of the linearizer
\* ------------------------------------------------------------------------
OutlinePoints(outline) == PointCount(outline.contours, 1)

AllOnCurve(outline) ==
    \A i \in 1..Len(outline.contours) :
        \A j \in 1..Len(outline.contours[i].points) :
            outline.contours[i].points[j].on_curve

HasOffCurve(outline) == ~AllOnCurve(outline)

\* C6: every point of every contour of the outline linearize_outline returns
\* is on-curve, for every input outline.
C6_AllPointsOnCurve ==
    lin_called =>
        \A s \in Subdivs : lin_res[s].tag = "Ok" => AllOnCurve(lin_res[s].value)

\* C7: every contour of the outline linearize_outline returns has at least
\* 3 points; a contour left with fewer is not in the result.
C7_AtLeastThreePoints ==
    lin_called =>
        \A s \in Subdivs :
            lin_res[s].tag = "Ok" =>
                \A i \in 1..Len(lin_res[s].value.contours) :
                    Len(lin_res[s].value.contours[i].points) >= 3

\* C8: linearize_outline returns Ok for every input outline and every
\* subdivisions value; no index of the state machine or of
\* remove_collinear_points is out of range.
C8_LinearizeAlwaysOk ==
    lin_called => \A s \in Subdivs : lin_res[s].tag = "Ok"

\* C8 witness: linearize_outline has run on a contour with an off-curve
\* point; at 10 subdivisions curve points were emitted and went through the
\* compaction loop, and every subdivisions value returned Ok.
C8_Witness ==
    /\ lin_called
    /\ HasOffCurve(lin_outline)
    /\ OutlinePoints(lin_outline) >= 3
    /\ \A s \in Subdivs : lin_res[s].tag = "Ok"
    /\ OutlinePoints(lin_res[10].value) > OutlinePoints(lin_outline)

\* C9: the number of points linearization produces is non-decreasing in
\* subdivisions: at 50 at least as many as at 20, at 20 at least as many as
\* at 10.
C9_PointCountMonotone ==
    lin_called /\ (\A s \in Subdivs : lin_res[s].tag = "Ok") =>
        /\ OutlinePoints(lin_res[10].value) <= OutlinePoints(lin_res[20].value)
        /\ OutlinePoints(lin_res[20].value) <= OutlinePoints(lin_res[50].value)

\* C10: for an outline whose points are all on-curve, the result of
\* linearize_outline is the same for every subdivisions value.
C10_StraightLinesIgnoreSubdivisions ==
    lin_called /\ AllOnCurve(lin_outline) =>
        \A s1, s2 \in Subdivs : lin_res[s1] = lin_res[s2]

\* C10 witness: linearize_outline has run on an all-on-curve contour of three
\* points, which it kept.
C10_Witness ==
    /\ lin_called
    /\ AllOnCurve(lin_outline)
    /\ OutlinePoints(lin_outline) >= 3
    /\ lin_res[10].tag = "Ok"
    /\ OutlinePoints(lin_res[10].value) >= 3

\* ------------------------------------------------------------------------
\* Properties of the meshes
\* ------------------------------------------------------------------------
IndicesInRange(mesh) ==
    \A j \in 1..Len(mesh.indices) : mesh.indices[j] < Len(mesh.vertices)

\* the squared length of a normal whose magnitude is within 0.01 of 1
NearUnit(n) ==
    /\ ~IsNaN(n)
    /\ Vec3_length_squared(n) >= (NormOne - NormOne \div 100) * (NormOne - NormOne \div 100)
    /\ Vec3_length_squared(n) <= (NormOne + NormOne \div 100) * (NormOne + NormOne \div 100)

\* C1: from an empty Mesh3D, after any sequence of Mesh3D::clear, extrude
\* of a well-formed Mesh2D, glyph_to_mesh_3d_reuse and compute_smooth_normals,
\* the mesh has as many normals as vertices, a multiple of 3 indices, and
\* every index (cap, back cap, wall) below the vertex count.
C1_Mesh3DWellFormed ==
    /\ Len(mesh3.vertices) = Len(mesh3.normals)
    /\ Len(mesh3.indices) % 3 = 0
    /\ IndicesInRange(mesh3)

\* C1 witness: compute_smooth_normals has returned on an extruded mesh that
\* has both caps of a triangle and wall quads behind them.
C1_Witness ==
    /\ pipe_call.entry = "compute_smooth_normals"
    /\ ~mesh_panic
    /\ Len(mesh3.vertices) >= 6 + 4
    /\ Len(mesh3.indices) >= 6 + 6
    /\ \E j \in 1..Len(mesh3.indices) : mesh3.indices[j] >= 6

\* C2: the ids add_fill_vertex returns are 0, 1, 2, ... in call order, each
\* add_triangle appends exactly three indices, and the Mesh2D triangulate
\* returns has a multiple of 3 indices, each below the vertex count.
C2_TriangulateWellFormed ==
    /\ \A k \in 1..Len(tri_ids) : tri_ids[k] = k - 1
    /\ Len(tri_geometry.indices) = 3 * tri_triangles
    /\ tri_res.tag = "Ok" =>
           /\ Len(tri_res.value.indices) % 3 = 0
           /\ IndicesInRange(tri_res.value)

\* C2 witness: triangulate has returned Ok after three add_fill_vertex calls
\* and at least one add_triangle call.
C2_Witness ==
    /\ tri_run = "done"
    /\ tri_res.tag = "Ok"
    /\ Len(tri_res.value.vertices) >= 3
    /\ Len(tri_res.value.indices) >= 3

\* C3: every normal of the mesh extrude returns has magnitude within 0.01 of
\* 1.0: the cap normals and every wall normal, also where consecutive edges
\* reverse direction (a closed 2-point contour, a spike).
C3_ExtrudeNormalsUnit ==
    pipe_call.entry = "extrude" =>
        \A j \in 1..Len(mesh3.normals) : NearUnit(mesh3.normals[j])

\* ------------------------------------------------------------------------
\* Properties of the conversions
\* ------------------------------------------------------------------------
ReuseEntries == {"Font::glyph_to_mesh_2d_reuse", "Font::glyph_to_mesh_3d_reuse"}

\* a character the font has a glyph for, whose glyph has no outline
IsWhitespace(c) ==
    /\ c \in TheFace.cmap
    /\ Len(TheFace.glyf[c]) = 0

\* a character the font has no glyph for
IsMissing(c) == c \in Chars \ TheFace.cmap

C5_MissingGlyphIsGlyphNotFound ==
    /\ IsMissing(pipe_call.character) =>
           /\ pipe_res.tag = "GlyphNotFound"
           /\ pipe_res.payload = pipe_call.character
           /\ pipe_res.stages = <<"lookup">>
    /\ pipe_call.character \in Chars =>
           /\ Len(pipe_res.stages) >= 1
           /\ pipe_res.stages[1] = "lookup"
           /\ \A k \in 2..Len(pipe_res.stages) : pipe_res.stages[k] # "lookup"

\* C5 witness: glyph_to_mesh_3d_reuse has returned GlyphNotFound for the
\* character that has no glyph.
C5_Witness ==
    /\ pipe_call.entry = "Font::glyph_to_mesh_3d_reuse"
    /\ IsMissing(pipe_call.character)
    /\ pipe_res.tag = "GlyphNotFound"
    /\ pipe_res.payload = pipe_call.character

\* the mesh a fresh conversion of the last _reuse call's character at its
\* quality (and depth) returns: glyph_by_char(c)?.with_subdivisions(q).to_mesh
Fresh2d ==
    lookup_then_builder_2d(Font_glyph_by_char(TheFont, pipe_call.character),
                           Quality_value(pipe_call.args.quality),
                           pipe_call.args.script)

Fresh3d ==
    lookup_then_builder_3d(Font_glyph_by_char(TheFont, pipe_call.character),
                           Quality_value(pipe_call.args.quality),
                           pipe_call.args.depth, pipe_call.args.script)

\* the buffer after a _reuse call that returned res, against the fresh
\* conversion: the fresh mesh on success, the empty buffer on an error
BufferIsFresh(res, mesh, fresh, empty) ==
    /\ res.tag = "Ok" => fresh.tag = "Ok" /\ mesh = fresh.value
    /\ res.tag # "Ok" => mesh = empty

\* the same, with the glyph without outline set apart: there the _reuse call
\* returns Ok(()) on the empty buffer while the fresh conversion is NoOutline
BufferIsFreshOrBlank(res, mesh, fresh, empty) ==
    /\ res.tag = "Ok" =>
           \/ fresh.tag = "Ok" /\ mesh = fresh.value
           \/ fresh.tag = "NoOutline" /\ mesh = empty
    /\ res.tag # "Ok" => mesh = empty

InputPoints(outline) == path_points(outline.contours, 1)

\* <<x, y>> is a vertex of the Mesh2D or a point of the outline
IsInputXY(xy) ==
    \/ \E j \in 1..Len(ex_in.mesh_2d.vertices) : ex_in.mesh_2d.vertices[j] = xy
    \/ \E j \in 1..Len(InputPoints(ex_in.outline)) : InputPoints(ex_in.outline)[j] = xy

\* 0.01 em on the grid
DepthTolerance == Scale \div 100

Pattern(op) ==
    CASE op \in {"move_to", "line_to"} -> <<TRUE>>
      [] op = "quad_to" -> <<FALSE, TRUE>>
      [] op = "curve_to" -> <<FALSE, FALSE, TRUE>>
      [] OTHER -> <<>>

\* the points of the k-th command, in the order of its coordinate pairs
CmdPoints(op, k) ==
    [j \in 1..Len(Pattern(op)) |-> [point |-> CmdXY(k, j), on_curve |-> Pattern(op)[j]]]

\* the points of the commands from .. to, in command order
RECURSIVE PointsOf(_, _, _)
PointsOf(cmds, from, to) ==
    IF from > to THEN <<>>
    ELSE CmdPoints(cmds[from], from) \o PointsOf(cmds, from + 1, to)

\* the commands that end a contour
Ends(cmds) == {e \in 1..Len(cmds) : cmds[e] \in {"move_to", "close"}}

\* the move_to that started the active contour, 0 if no contour is active
ActiveStart(cmds) ==
    IF Ends(cmds) = {} THEN 0
    ELSE LET e == CHOOSE x \in Ends(cmds) : \A y \in Ends(cmds) : y <= x
         IN  IF cmds[e] = "move_to" THEN e ELSE 0

\* the first command after k that ends a contour, 0 if there is none
NextEnd(cmds, k) ==
    IF \E e \in Ends(cmds) : e > k
    THEN CHOOSE e \in Ends(cmds) : e > k /\ \A y \in Ends(cmds) : y > k => e <= y
    ELSE 0

\* the contours started by a move_to at k or later and ended since, in the
\* order they were started
RECURSIVE FinalizedFrom(_, _)
FinalizedFrom(cmds, k) ==
    IF k > Len(cmds) THEN <<>>
    ELSE IF cmds[k] = "move_to" /\ NextEnd(cmds, k) # 0
    THEN <<[closed |-> TRUE, points |-> PointsOf(cmds, k, NextEnd(cmds, k) - 1)]>>
         \o FinalizedFrom(cmds, k + 1)
    ELSE FinalizedFrom(cmds, k + 1)

\* the last command was a line_to, quad_to or curve_to
DrawStep ==
    /\ ext_cmds' # ext_cmds
    /\ ext_cmds'[Len(ext_cmds')] \in {"line_to", "quad_to", "curve_to"}

\* C13: while a contour is active its points are the move_to point on-curve
\* followed by the points of the later commands in command order: one
\* on-curve point per line_to, control (off-curve) then end (on-curve) per
\* quad_to, c1, c2 (off-curve) then end (on-curve) per curve_to; and a
\* line_to, quad_to or curve_to changes neither the points appended before
\* nor the contours already in the outline.
C13_CommandsAppendInOrder ==
    /\ [](ActiveStart(ext_cmds) # 0 =>
             /\ extractor.current_contour.some
             /\ extractor.current_contour.value.points
                    = PointsOf(ext_cmds, ActiveStart(ext_cmds), Len(ext_cmds)))
    /\ [][DrawStep =>
             /\ extractor'.outline = extractor.outline
             /\ extractor.current_contour.some =>
                    /\ extractor'.current_contour.some
                    /\ extractor'.current_contour.value.points
                           = extractor.current_contour.value.points
                             \o CmdPoints(ext_cmds'[Len(ext_cmds')], Len(ext_cmds'))]_vars

\* C13 witness: after move_to, line_to, quad_to, curve_to the active contour
\* has the seven points on, on, off, on, off, off, on.
C13_Witness ==
    /\ ext_cmds = <<"move_to", "line_to", "quad_to", "curve_to">>
    /\ extractor.current_contour.some
    /\ [j \in 1..7 |-> extractor.current_contour.value.points[j].on_curve]
           = <<TRUE, TRUE, FALSE, TRUE, FALSE, FALSE, TRUE>>

\* C14: the outline holds exactly the contours that were started by a move_to
\* and ended by a later move_to or close, each once, in the order they were
\* started, each with at least one point; after a move_to the active contour
\* holds only the new point, on-curve; after a close no contour is active.
C14_ContoursFinalizedOnce ==
    /\ extractor.outline.contours = FinalizedFrom(ext_cmds, 1)
    /\ \A i \in 1..Len(extractor.outline.contours) :
           /\ Len(extractor.outline.contours[i].points) >= 1
           /\ extractor.outline.contours[i].closed
           /\ \A j \in (i + 1)..Len(extractor.outline.contours) :
                  extractor.outline.contours[i].points[1].point[1]
                      < extractor.outline.contours[j].points[1].point[1]
    /\ Len(ext_cmds) > 0 /\ ext_cmds[Len(ext_cmds)] = "move_to" =>
           /\ extractor.current_contour.some
           /\ extractor.current_contour.value.points
                  = <<[point |-> CmdXY(Len(ext_cmds), 1), on_curve |-> TRUE]>>
    /\ Len(ext_cmds) > 0 /\ ext_cmds[Len(ext_cmds)] = "close" =>
           ~extractor.current_contour.some

\* C14 witness: a close followed by a second close and a move_to, then a
\* close: the outline holds the two contours.
C14_Witness ==
    /\ ext_cmds = <<"move_to", "close", "close", "move_to", "close">>
    /\ Len(extractor.outline.contours) = 2
    /\ ~extractor.current_contour.some


\* the arguments and the result of the extrude call
ExV == Len(ex_in.mesh_2d.vertices)
ExI == Len(ex_in.mesh_2d.indices)
ExMesh == ex_out.value

OfferedEdges(contour) ==
    IF Len(contour.points) < 2 THEN <<>>
    ELSE [i \in 1..(IF contour.closed THEN Len(contour.points)
                    ELSE Len(contour.points) - 1) |->
             <<contour.points[i].point,
               contour.points[(i % Len(contour.points)) + 1].point>>]

RECURSIVE OfferedFrom(_, _)
OfferedFrom(contours, c) ==
    IF c > Len(contours) THEN <<>>
    ELSE OfferedEdges(contours[c]) \o OfferedFrom(contours, c + 1)

\* an edge whose squared length is not below epsilon
IsRetained(e) == ~EdgeBelow(length_squared(Vsub(e[2], e[1])))

\* the edges of the outline handed to extrude, and those that get a wall
ExOffered == OfferedFrom(ex_in.outline.contours, 1)
ExRetained == SelectSeq(ExOffered, IsRetained)

\* the wall of the w-th retained edge e, with b the vertex count before it
WallIs(e, b, at) ==
    /\ ExMesh.vertices[b + 1][1] = e[1][1] /\ ExMesh.vertices[b + 1][2] = e[1][2]
    /\ ExMesh.vertices[b + 2][1] = e[2][1] /\ ExMesh.vertices[b + 2][2] = e[2][2]
    /\ ExMesh.vertices[b + 3][1] = e[2][1] /\ ExMesh.vertices[b + 3][2] = e[2][2]
    /\ ExMesh.vertices[b + 4][1] = e[1][1] /\ ExMesh.vertices[b + 4][2] = e[1][2]
    /\ 2 * ExMesh.vertices[b + 1][3] = ex_in.depth
    /\ 2 * ExMesh.vertices[b + 2][3] = ex_in.depth
    /\ 2 * ExMesh.vertices[b + 3][3] = -ex_in.depth
    /\ 2 * ExMesh.vertices[b + 4][3] = -ex_in.depth
    /\ ExMesh.normals[b + 4] = ExMesh.normals[b + 1]
    /\ ExMesh.normals[b + 3] = ExMesh.normals[b + 2]
    /\ SubSeq(ExMesh.indices, at + 1, at + 6) = <<b, b + 1, b + 2, b, b + 2, b + 3>>

\* C16: walls are generated for exactly the retained edges of the outline,
\* in order; each appends the 4 vertices front-p0, front-p1, back-p1, back-p0
\* (normals paired p0, p1, p1, p0) and the 6 indices (b, b+1, b+2, b, b+2,
\* b+3), b the vertex count before the edge; the result has 2V + 4W vertices
\* and 2I + 6W indices, within the capacity 2V + 4E and 2I + 6E.
C16_WallsPerRetainedEdge ==
    ex_out.tag = "Ok" =>
        /\ Len(ExMesh.vertices) = 2 * ExV + 4 * Len(ExRetained)
        /\ Len(ExMesh.normals) = 2 * ExV + 4 * Len(ExRetained)
        /\ Len(ExMesh.indices) = 2 * ExI + 6 * Len(ExRetained)
        /\ Len(ExMesh.vertices) <= 2 * ExV + 4 * Len(ExOffered)
        /\ Len(ExMesh.indices) <= 2 * ExI + 6 * Len(ExOffered)
        /\ \A w \in 1..Len(ExRetained) :
               WallIs(ExRetained[w], 2 * ExV + 4 * (w - 1), 2 * ExI + 6 * (w - 1))

\* C16 witness: extrude has returned for a triangle mesh and a closed contour
\* of three points of which one edge is degenerate and two got a wall.
C16_Witness ==
    /\ ex_out.tag = "Ok"
    /\ ExV = 3
    /\ Len(ex_in.outline.contours) = 1
    /\ ex_in.outline.contours[1].closed
    /\ Len(ExOffered) = 3
    /\ Len(ExRetained) = 2

\* three times the signed area of the triangle of a 3-point contour is not 0
IsTriangle(contour) ==
    /\ Len(contour.points) = 3
    /\ contour.closed
    /\ Cross2(Vsub(contour.points[2].point, contour.points[1].point),
              Vsub(contour.points[3].point, contour.points[1].point)) # 0

\* the geometric normal of the triangle at indices at + 1 .. at + 3
TriangleNormal(mesh, at) ==
    Vec3_cross(Vec3_sub(mesh.vertices[mesh.indices[at + 2] + 1],
                        mesh.vertices[mesh.indices[at + 1] + 1]),
               Vec3_sub(mesh.vertices[mesh.indices[at + 3] + 1],
                        mesh.vertices[mesh.indices[at + 1] + 1]))

\* n, at the point v of a triangular contour, points away from its centroid
PointsAway(n, v, contour) ==
    n[1] * (3 * v[1] - contour.points[1].point[1] - contour.points[2].point[1]
                     - contour.points[3].point[1])
    + n[2] * (3 * v[2] - contour.points[1].point[2] - contour.points[2].point[2]
                       - contour.points[3].point[2]) > 0

\* C17: for an outline that is one triangle, in either direction, and
\* depth > 0, both triangles of every wall have their geometric normal
\* pointing away from the interior, and so has the edge's vertex normal.
C17_WallsFaceOutward ==
    (/\ ex_out.tag = "Ok"
     /\ ex_in.depth > 0
     /\ Len(ex_in.outline.contours) = 1
     /\ IsTriangle(ex_in.outline.contours[1])) =>
        \A t \in 0..(2 * Len(ExRetained) - 1) :
            PointsAway(TriangleNormal(ExMesh, 2 * ExI + 3 * t),
                       ExMesh.vertices[ExMesh.indices[2 * ExI + 3 * t + 1] + 1],
                       ex_in.outline.contours[1])



\* ------------------------------------------------------------------------
\* C18
\* ------------------------------------------------------------------------
\* round(subdivisions / 4): the interior points of an emission whose angle
\* is a quarter turn, the largest asin returns
EmissionMax(subdivisions) == RoundDiv(subdivisions, 4)

\* the steps arrive at what linearize_contour returns as a whole
SmResultIsContour ==
    sm_pc = "done" =>
        sm_st.points = linearize_contour(sm_contour, sm_subdivisions).contour.points

\* the counts of work stay within what the input allows
SmWorkBounded ==
    LET n == Len(sm_contour.points)
        kept == sm_st.write_idx + 1
    IN  /\ sm_pc # "panic"
        /\ sm_pc = "loop" =>
             /\ sm_work.calls <= sm_i
             /\ Len(sm_acc.points)
                  <= sm_i + sm_work.calls * EmissionMax(sm_subdivisions)
        /\ sm_pc \in {"collinear", "dedup", "done"} =>
             /\ sm_work.calls <= n + (IF sm_contour.closed THEN 1 ELSE 0)
             /\ Len(sm_acc.points)
                  <= n + sm_work.calls * EmissionMax(sm_subdivisions)
        /\ sm_pc = "collinear" => sm_work.visits = sm_i - 1
        /\ sm_work.visits <= Len(sm_acc.points)
        /\ sm_pc = "dedup" =>
             /\ Len(sm_st.points) >= 1
             /\ sm_work.pops + Len(sm_st.points) = kept
        /\ sm_work.pops > 0 => sm_work.pops <= kept - 1

\* one input point: at most one linearize_qbezier call and one push
SmStepWork ==
    /\ sm_work'.calls - sm_work.calls <= 1
    /\ Len(sm_acc'.points) - Len(sm_acc.points)
         <= 1 + (sm_work'.calls - sm_work.calls) * EmissionMax(sm_subdivisions)

\* the closing curve: at most one more emission, and no push
SmCloseWork ==
    /\ sm_work'.calls - sm_work.calls <= (IF sm_contour.closed THEN 1 ELSE 0)
    /\ Len(sm_acc'.points) - Len(sm_acc.points)
         <= (sm_work'.calls - sm_work.calls) * EmissionMax(sm_subdivisions)

\* C18: linearize_contour, once entered, returns, and its work is bounded by
\* its input: a point read costs at most one curve emission and one push, a
\* closed contour at most one closing emission more, an emission at most
\* round(subdivisions / 4) interior points, the compaction loop reads each
\* point once, and the trailing loop pops at most len - 1 points.
C18_LinearizeTerminates ==
    /\ [](SmWorkBounded /\ SmResultIsContour)
    /\ [][(SmStep => SmStepWork) /\ (SmClose => SmCloseWork)]_vars
    /\ (sm_pc # "idle") ~> (sm_pc = "done")

\* a closed contour ending off-curve has run to the end: two emissions, the
\* closing one among them, interior points pushed, the compaction loop run
C18_Witness ==
    /\ sm_pc = "done"
    /\ sm_contour.closed
    /\ Len(sm_contour.points) >= 2
    /\ ~sm_contour.points[Len(sm_contour.points)].on_curve
    /\ sm_work.calls >= 2
    /\ Len(sm_acc.points) > Len(sm_contour.points)
    /\ sm_work.visits >= 2


\* ------------------------------------------------------------------------
\* C19
\* ------------------------------------------------------------------------
\* the point the loop reads in this step
SmRead == sm_contour.points[sm_i + 1]

\* the coordinates of the on-curve points among the first k input points
RECURSIVE OnCurveRead(_, _)
OnCurveRead(points, k) ==
    IF k = 0 THEN <<>>
    ELSE IF points[k].on_curve
         THEN Append(OnCurveRead(points, k - 1), points[k].point)
         ELSE OnCurveRead(points, k - 1)

\* a[i..] occurs in b[j..] in order, b[j..] holding other points in between
RECURSIVE OccursInOrder(_, _, _, _)
OccursInOrder(a, i, b, j) ==
    IF i > Len(a) THEN TRUE
    ELSE IF j > Len(b) THEN FALSE
    ELSE IF b[j].point = a[i] THEN OccursInOrder(a, i + 1, b, j + 1)
    ELSE OccursInOrder(a, i, b, j + 1)

\* the point read is pushed as it is, flagged on-curve, and becomes `last`
PushedAsLast(cp) ==
    /\ sm_acc'.points = Append(sm_acc.points, [point |-> cp.point, on_curve |-> TRUE])
    /\ sm_acc'.state.tag = "OnCurve"
    /\ sm_acc'.state.last_point = cp.point

\* the transitions out of Initial and out of OnCurve
OnCurveTransitions ==
    /\ sm_acc.state.tag = "Initial" => PushedAsLast(SmRead)
    /\ sm_acc.state.tag = "OnCurve" /\ SmRead.on_curve => PushedAsLast(SmRead)
    /\ sm_acc.state.tag = "OnCurve" /\ ~SmRead.on_curve =>
         /\ sm_acc'.points = sm_acc.points
         /\ sm_acc'.state.tag = "OffCurve"
         /\ sm_acc'.state.last_point = sm_acc.state.last_point
         /\ sm_acc'.state.control_point = SmRead.point

\* the on-curve input points read so far are among the points pushed, in
\* input order
OnCurveInOrder ==
    LET n == Len(sm_contour.points)
    IN  n >= 2 =>
          OccursInOrder(OnCurveRead(sm_contour.points,
                                    IF sm_pc = "loop" THEN sm_i ELSE n),
                        1, sm_acc.points, 1)

\* C19: in linearize_contour on a contour of 2 points or more, the first
\* point is pushed as an on-curve point and becomes `last` whatever its
\* flag; in OnCurve an on-curve point is pushed and becomes `last`, an
\* off-curve point pushes nothing, leaves `last` and becomes the pending
\* control point; every on-curve input point is in the output before
\* simplification, in input order.
C19_OnCurvePointsKept ==
    /\ []OnCurveInOrder
    /\ [][SmStep => OnCurveTransitions]_vars

\* the loop has read off-curve, on-curve, off-curve, on-curve
C19_Witness ==
    /\ sm_pc = "loop"
    /\ sm_i = 4
    /\ Len(sm_contour.points) = 4
    /\ ~sm_contour.points[1].on_curve
    /\ sm_contour.points[2].on_curve
    /\ ~sm_contour.points[3].on_curve
    /\ sm_contour.points[4].on_curve
    /\ sm_acc.state.tag = "OnCurve"


\* ------------------------------------------------------------------------
\* C20
\* ------------------------------------------------------------------------
\* the interior points linearize_qbezier emits for the quadratic p0, p1, p2
InteriorPoints(p0, p1, p2) == linearize_qbezier(p0, p1, p2, sm_subdivisions, <<>>)

\* the state machine has pushed the interior points of the quadratic from
\* `last` over `control` to p, and then p
CurvePushedTo(p) ==
    sm_acc'.points =
        sm_acc.points
        \o InteriorPoints(sm_acc.state.last_point, sm_acc.state.control_point, p)
        \o <<[point |-> p, on_curve |-> TRUE]>>

\* the transitions out of OffCurve
OffCurveTransitions ==
    /\ sm_acc.state.tag = "OffCurve" /\ SmRead.on_curve =>
         /\ CurvePushedTo(SmRead.point)
         /\ sm_acc'.state.tag = "OnCurve"
         /\ sm_acc'.state.last_point = SmRead.point
    /\ sm_acc.state.tag = "OffCurve" /\ ~SmRead.on_curve =>
         /\ sm_acc'.state.tag = "OffCurve"
         /\ sm_acc'.state.control_point = SmRead.point
         /\ 2 * sm_acc'.state.last_point[1]
              = sm_acc.state.control_point[1] + SmRead.point[1]
         /\ 2 * sm_acc'.state.last_point[2]
              = sm_acc.state.control_point[2] + SmRead.point[2]
         /\ CurvePushedTo(sm_acc'.state.last_point)

\* the input points 3..k that follow an off-curve point other than the
\* first point: each one ends a quadratic segment
SegmentEnds(points, k) ==
    {i \in 3..k : ~points[i - 1].on_curve}

\* those of them that are off-curve: each one brings an implicit midpoint
MidpointEnds(points, k) ==
    {i \in SegmentEnds(points, k) : ~points[i].on_curve}

\* the contour is an on-curve point, k off-curve points, an on-curve point
IsRun(points, k) ==
    /\ Len(points) = k + 2
    /\ points[1].on_curve
    /\ points[k + 2].on_curve
    /\ \A i \in 2..(k + 1) : ~points[i].on_curve

\* k off-curve points in a row after an on-curve point make k quadratic
\* segments and k - 1 implicit midpoints once the next on-curve point is read
SegmentsCounted ==
    LET points == sm_contour.points
        read == IF sm_pc = "loop" THEN sm_i ELSE Len(points)
    IN  Len(points) >= 2 =>
          /\ sm_work.mids = Cardinality(MidpointEnds(points, read))
          /\ sm_pc = "loop" =>
               sm_work.calls = Cardinality(SegmentEnds(points, read))
          /\ sm_subdivisions = 0 /\ sm_pc = "loop" =>
               Len(sm_acc.points) = Len(OnCurveRead(points, read))
                                    + (IF points[1].on_curve \/ read = 0
                                       THEN 0 ELSE 1)
                                    + sm_work.mids
          /\ \A k \in 1..(MaxSmPts - 2) :
               IsRun(points, k) /\ read = k + 2 =>
                   sm_work.calls = k /\ sm_work.mids = k - 1

\* C20: in OffCurve an on-curve point p appends the interior points of the
\* quadratic (last, control, p) and then p, and leads to OnCurve with
\* last = p; an off-curve point q appends the interior points of the
\* quadratic (last, control, mid) and then mid = (control + q) / 2, and
\* stays in OffCurve with last = mid and control = q.  A run of k off-curve
\* points between two on-curve points gives k quadratic segments and k - 1
\* implicit midpoints.
C20_OffCurveRuns ==
    /\ []SegmentsCounted
    /\ [][SmStep => OffCurveTransitions]_vars

\* on-curve, off-curve, off-curve, on-curve has been read at subdivisions
\* 20: two segments, one midpoint, interior points among the points pushed
C20_Witness ==
    /\ sm_pc = "loop"
    /\ sm_i = 4
    /\ IsRun(sm_contour.points, 2)
    /\ sm_subdivisions = 20
    /\ sm_work.calls = 2
    /\ sm_work.mids = 1
    /\ Len(sm_acc.points) > 3


\* ------------------------------------------------------------------------
\* C21
\* ------------------------------------------------------------------------
\* what the end of the point sequence appends, by the state it ends in
ClosingAppends ==
    /\ sm_acc.state.tag = "OffCurve" /\ sm_contour.closed =>
         /\ sm_acc'.points =
              sm_acc.points
              \o InteriorPoints(sm_acc.state.last_point,
                                sm_acc.state.control_point,
                                sm_contour.points[1].point)
         /\ sm_work'.calls = sm_work.calls + 1
    /\ sm_acc.state.tag = "OffCurve" /\ ~sm_contour.closed =>
         /\ sm_acc'.points = sm_acc.points
         /\ sm_work'.calls = sm_work.calls
    /\ sm_acc.state.tag = "OnCurve" =>
         /\ sm_acc'.points = sm_acc.points
         /\ sm_work'.calls = sm_work.calls

\* C21: when the points of a contour end in OffCurve, a closed contour gets
\* exactly one final quadratic (last, pending control, first input point),
\* whose interior points are appended and the first point is not appended
\* again; an open contour gets nothing and the pending control is dropped.
\* When the points end in OnCurve nothing is appended.
C21_ClosingSegment == [][SmClose => ClosingAppends]_vars

\* a closed contour has ended in OffCurve and the closing quadratic has
\* added interior points after the last point the loop pushed
C21_Witness ==
    /\ sm_pc = "collinear"
    /\ sm_i = 1
    /\ sm_contour.closed
    /\ sm_acc.state.tag = "OffCurve"
    /\ sm_acc.points[Len(sm_acc.points)].point # sm_acc.state.last_point
    /\ sm_acc.points[Len(sm_acc.points)].point # sm_contour.points[1].point


\* ------------------------------------------------------------------------
\* C22
\* ------------------------------------------------------------------------
\* the curve is not skipped as nearly linear or for a vanishing tangent
QbNonDegenerate(p0, p1, p2) ==
    /\ ~AreaBelow(triangle_area2(p0, p1, p2), AREA_THRESHOLD_DEN)
    /\ ~BelowEpsilonSq(length_squared(<<2 * (p1[1] - p0[1]), 2 * (p1[2] - p0[2])>>))
    /\ ~BelowEpsilonSq(length_squared(<<2 * (p2[1] - p1[1]), 2 * (p2[2] - p1[2])>>))

\* N = round(angle / (2 pi) * subdivisions)
QbCount(p0, p1, p2, subdivisions) ==
    num_points_of(asin_steps(<<2 * (p1[1] - p0[1]), 2 * (p1[2] - p0[2])>>,
                             <<2 * (p2[1] - p1[1]), 2 * (p2[2] - p1[2])>>),
                  subdivisions)

\* one loop over k = 1..N: the curve at k / (N + 1)
SingleLoop(p0, p1, p2, N) ==
    [k \in 1..N |-> [point |-> qbezier(p0, p1, p2, k, N + 1), on_curve |-> TRUE]]

\* C22: for a non-degenerate curve with N = round(angle / (2 pi) *
\* subdivisions), linearize_qbezier appends exactly N points, none for
\* N = 0; the k-th is the curve at k / (N + 1), k = 1..N in increasing
\* order, so the batches of 4 and the remainder loop give what one loop
\* over k gives, and no parameter is 0 or 1.
C22_InteriorPointsEvenlySpaced ==
    qb_in # <<>> /\ QbNonDegenerate(qb_in[1], qb_in[2], qb_in[3]) =>
        /\ Len(qb_out) = QbCount(qb_in[1], qb_in[2], qb_in[3], qb_in[4])
        /\ qb_out = SingleLoop(qb_in[1], qb_in[2], qb_in[3], Len(qb_out))

\* a non-degenerate curve got full batches and a remainder of 2 or 3 points
C22_Witness ==
    /\ qb_in # <<>>
    /\ QbNonDegenerate(qb_in[1], qb_in[2], qb_in[3])
    /\ Len(qb_out) > 8
    /\ Len(qb_out) % 4 >= 2


\* ------------------------------------------------------------------------
\* C23
\* ------------------------------------------------------------------------
\* the points kept among orig[1..k] (k < Len(orig)), written without any
\* overwriting: the first point; then each later point of them whose
\* triangle with the point kept last and its own successor has area above
\* epsilon
RECURSIVE KeptUpTo(_, _)
KeptUpTo(orig, k) ==
    IF k <= 1 THEN <<orig[1]>>
    ELSE CHOOSE r \in
           {IF AreaAbove(triangle_area2(before[Len(before)].point, orig[k].point,
                                        orig[k + 1].point), EPSILON_DEN)
            THEN Append(before, orig[k]) ELSE before :
              before \in {KeptUpTo(orig, k - 1)}} : TRUE

\* the whole subsequence: the last point is kept as well
KeptOf(orig) == Append(KeptUpTo(orig, Len(orig) - 1), orig[Len(orig)])

\* while the compaction loop runs: the write index is not ahead of the read
\* index, the points written are the points kept so far, and every point
\* from the read index on is still the original one
CompactionInPlace ==
    sm_pc = "collinear" =>
        /\ sm_st.write_idx <= sm_i
        /\ SubSeq(sm_st.points, 1, sm_st.write_idx) = KeptUpTo(sm_acc.points, sm_i)
        /\ \A j \in (sm_i + 1)..Len(sm_acc.points) : sm_st.points[j] = sm_acc.points[j]

\* when the pass is over: the vector is the subsequence
CompactionResult ==
    sm_pc = "dedup" /\ sm_work.pops = 0 => sm_st.points = KeptOf(sm_acc.points)

\* C23: on n >= 3 points the collinearity pass of remove_collinear_points
\* leaves the subsequence with point 0 kept, each interior point kept iff
\* the triangle (last kept point, the point, its original successor) has
\* area above epsilon, and point n - 1 kept; the write index never exceeds
\* the read index and no point is overwritten before it is read.
C23_CollinearPassSubsequence == CompactionInPlace /\ CompactionResult

\* the pass is over: a point was dropped and a later point was kept, moved
\* down over it
C23_Witness ==
    /\ sm_pc = "dedup"
    /\ sm_work.pops = 0
    /\ Len(sm_st.points) >= 3
    /\ Len(sm_st.points) < Len(sm_acc.points)
    /\ sm_st.points[2] # sm_acc.points[2]


\* ------------------------------------------------------------------------
\* C24
\* ------------------------------------------------------------------------
\* the first and the last point of `points` are within epsilon of each other
EndsClose(points) ==
    /\ Abs(points[Len(points)].point[1] - points[1].point[1]) <= 1
    /\ Abs(points[Len(points)].point[2] - points[1].point[2]) <= 1

\* C24: after the collinearity pass, if the first and the last point are
\* within epsilon of each other the last point is dropped, one point in a
\* single step, and otherwise nothing is removed; no other point of the
\* contour is removed.
C24_OneDuplicateDropped ==
    Len(rc_in) >= 3 =>
        LET pass == collinear_pass_fine(rc_in)
        IN  rc_out.points = IF EndsClose(pass)
                            THEN SubSeq(pass, 1, Len(pass) - 1)
                            ELSE pass

\* C24 as the loop has it: the last point is dropped as long as it is
\* within epsilon of the first and more than one point is left; what is
\* left is the points of the pass without the dropped tail, and its ends
\* are apart unless it is a single point.
C24_DuplicatesDroppedWhileClose ==
    Len(rc_in) >= 3 =>
        LET pass == collinear_pass_fine(rc_in)
        IN  /\ rc_out.points = SubSeq(pass, 1, Len(pass) - rc_out.pops)
            /\ Len(rc_out.points) >= 1
            /\ \A j \in (Len(rc_out.points) + 1)..Len(pass) :
                   EndsClose(SubSeq(pass, 1, j))
            /\ Len(rc_out.points) > 1 => ~EndsClose(rc_out.points)

\* the pass left five points, the last two within epsilon of the first:
\* both were popped
C24_Witness ==
    /\ Len(rc_in) = 5
    /\ Len(collinear_pass_fine(rc_in)) = 5
    /\ rc_out.pops = 2
    /\ rc_in[4].point # rc_in[5].point

\* ------------------------------------------------------------------------
\* Properties of compute_smooth_normals
\* ------------------------------------------------------------------------
\* the face normals of the triangles t, t + 1, ... summed once for every
\* corner that is a vertex of the group
RECURSIVE FaceNormalsOver(_, _, _)
FaceNormalsOver(mesh, group, t) ==
    IF 3 * t >= Len(mesh.indices) THEN Vec3_ZERO
    ELSE Vec3_add(times(Cardinality({k \in 1..3 : mesh.indices[3 * t + k] \in group}),
                        face_normal(mesh, t)),
                  FaceNormalsOver(mesh, group, t + 1))

SameKey(mesh, u, v) ==
    quantize_key(mesh.vertices[u + 1]) = quantize_key(mesh.vertices[v + 1])

VertexIds(mesh) == 0..(Len(mesh.vertices) - 1)

\* the summed accumulated normal of the position group of vertex v
GroupNormal(mesh, v) ==
    FaceNormalsOver(mesh, {u \in VertexIds(mesh) : SameKey(mesh, u, v)}, 0)

\* a step of compute_smooth_normals
SmoothNormalsCalled ==
    /\ pipe_call'.entry = "compute_smooth_normals"
    /\ ComputeSmoothNormals

SharedNormals(before, after) ==
    \A u \in VertexIds(before) : \A v \in VertexIds(before) :
        u # v /\ SameKey(before, u, v) =>
            /\ after.normals[u + 1] = after.normals[v + 1]
            /\ after.normals[u + 1] = normalize(GroupNormal(before, u))

C26_ZeroSumKeepsNormal ==
    [][SmoothNormalsCalled /\ C1_Mesh3DWellFormed =>
           \A v \in VertexIds(mesh3) :
               GroupNormal(mesh3, v) = Vec3_ZERO =>
                   mesh3'.normals[v + 1] = mesh3.normals[v + 1]]_vars

\* ------------------------------------------------------------------------
\* Properties of the wall normals
\* ------------------------------------------------------------------------
\* the place of the i-th offered edge of contour c among all offered edges
OfferedAt(c, i) == Len(OfferedFrom(SubSeq(ex_in.outline.contours, 1, c - 1), 1)) + i

\* the vertex count before the wall of the offered edge at place k
WallBase(k) == 2 * ExV + 4 * Len(SelectSeq(SubSeq(ExOffered, 1, k - 1), IsRetained))

\* the wall of the offered edge at place k carries normal n on its two
\* vertices at p0 (front-p0, back-p0), or at p1 (front-p1, back-p1)
NormalAtP0(k, n) ==
    /\ ExMesh.normals[WallBase(k) + 1] = n
    /\ ExMesh.normals[WallBase(k) + 4] = n

NormalAtP1(k, n) ==
    /\ ExMesh.normals[WallBase(k) + 2] = n
    /\ ExMesh.normals[WallBase(k) + 3] = n

\* the normal of edge e by itself
RawNormal(e) == edge_normal(Vsub(e[2], e[1]))

\* edge i of the contour is followed by edge j: the next one, or the first
\* one after the last of a closed contour
Follows(contour, i, j) ==
    /\ j = (i % Len(OfferedEdges(contour))) + 1
    /\ contour.closed \/ i < Len(OfferedEdges(contour))

ContinuousAlong(c) ==
    LET contour == ex_in.outline.contours[c]
        E == OfferedEdges(contour)
    IN  /\ \A i \in 1..Len(E) : \A j \in 1..Len(E) :
               Follows(contour, i, j) /\ IsRetained(E[i]) /\ IsRetained(E[j]) =>
                   NormalAtP0(OfferedAt(c, j), ExMesh.normals[WallBase(OfferedAt(c, i)) + 2])
                   /\ NormalAtP1(OfferedAt(c, i), ExMesh.normals[WallBase(OfferedAt(c, j)) + 1])
        /\ ~contour.closed /\ Len(E) >= 1 =>
               /\ IsRetained(E[1]) => NormalAtP0(OfferedAt(c, 1), RawNormal(E[1]))
               /\ IsRetained(E[Len(E)]) =>
                      NormalAtP1(OfferedAt(c, Len(E)), RawNormal(E[Len(E)]))

\* C27: for two consecutive non-degenerate edges of a contour, the wrap-
\* around pair of a closed contour included, the normal on the first edge's
\* two vertices at the shared point equals the normal on the second edge's
\* two vertices there; at the free ends of an open contour the end normals
\* are the raw normals of the first and the last edge.
C27_WallNormalsContinuous ==
    ex_out.tag = "Ok" =>
        \A c \in 1..Len(ex_in.outline.contours) : ContinuousAlong(c)

\* C27 witness: extrude has returned for a contour of three points whose
\* edges all got a wall, where the normal shared at the second point is
\* neither edge's own normal and, on a closed contour, the normals at the
\* wrap-around point agree as well.
C27_Witness ==
    /\ ex_out.tag = "Ok"
    /\ Len(ex_in.outline.contours) = 1
    /\ Len(ex_in.outline.contours[1].points) = 3
    /\ Len(ExRetained) = Len(ExOffered)
    /\ ExMesh.normals[WallBase(1) + 2] = ExMesh.normals[WallBase(2) + 1]
    /\ ExMesh.normals[WallBase(1) + 2] \notin
           {RawNormal(ExOffered[1]), RawNormal(ExOffered[2]), Vec3_ZERO}
    /\ ex_in.outline.contours[1].closed =>
           ExMesh.normals[WallBase(3) + 2] = ExMesh.normals[WallBase(1) + 1]

\* ------------------------------------------------------------------------
\* Properties of the outline extractor outside and at the end of a contour
\* ------------------------------------------------------------------------
\* C28: a line_to, quad_to or curve_to issued while no contour is active
\* (before the first move_to, or after a close and before the next move_to)
\* leaves the whole extractor as it was: the outline's contours, no active
\* contour, no last_point; no contour is started.
C28_DrawWithoutContourIsNoOp ==
    [][DrawStep /\ ActiveStart(ext_cmds) = 0 =>
           /\ extractor' = extractor
           /\ ~extractor'.current_contour.some
           /\ ~extractor'.last_point.some]_vars

\* C28 witness: a line_to before the first move_to, and a quad_to and a
\* curve_to after a close, have returned: the outline holds the one contour
\* of the move_to and no contour is active.
C28_Witness ==
    /\ ext_cmds = <<"line_to", "move_to", "close", "quad_to", "curve_to">>
    /\ Len(extractor.outline.contours) = 1
    /\ Len(extractor.outline.contours[1].points) = 1
    /\ ~extractor.current_contour.some
    /\ ~extractor.last_point.some

\* what extract_and_linearize_outline and Glyph::outline read from the
\* builder if the command stream ends here
ReadAtEnd == extracted([some |-> TRUE, builder |-> extractor], <<>>)

\* the contour was started by a move_to that a later move_to or close ended
StartedAndEnded(contour) ==
    \E k \in 1..Len(ext_cmds) :
        /\ ext_cmds[k] = "move_to"
        /\ NextEnd(ext_cmds, k) # 0
        /\ contour.points[1] = [point |-> CmdXY(k, 1), on_curve |-> TRUE]

OutlineContoursFinished ==
    \A i \in 1..Len(extractor.outline.contours) :
        /\ ~Contour_is_empty(extractor.outline.contours[i])
        /\ extractor.outline.contours[i].closed
        /\ StartedAndEnded(extractor.outline.contours[i])

\* the contour still pending is not in the outline, and is not read
PendingNotRead ==
    ActiveStart(ext_cmds) # 0 =>
        /\ extractor.current_contour.some
        /\ \A i \in 1..Len(extractor.outline.contours) :
               extractor.outline.contours[i].points[1].point
                   # CmdXY(ActiveStart(ext_cmds), 1)
        /\ ReadAtEnd.tag = "Ok" => ReadAtEnd.value = extractor.outline
        /\ Ends(ext_cmds) = {ActiveStart(ext_cmds)} => ReadAtEnd.tag = "NoOutline"

\* the outline grows only in a move_to or close, by the contour then active
EntersAtEnd ==
    extractor'.outline # extractor.outline =>
        /\ ext_cmds'[Len(ext_cmds')] \in {"move_to", "close"}
        /\ extractor.current_contour.some
        /\ extractor'.outline.contours
               = Append(extractor.outline.contours, extractor.current_contour.value)

\* C29: after any command sequence every contour of the extractor's outline
\* is non-empty, flagged closed (also when a following move_to finalized
\* it) and begins with the on-curve point of its move_to; a contour enters
\* the outline only in a later move_to or close, so a contour still pending
\* when the stream ends is not in the outline the conversions read, and a
\* stream of only such a contour is reported as NoOutline.
C29_OutlineHoldsFinishedContours ==
    /\ [](OutlineContoursFinished /\ PendingNotRead)
    /\ [][EntersAtEnd]_vars

\* C29 witness: a contour finalized by the following move_to is in the
\* outline, closed, while the contour of that move_to is pending with four
\* points and is not in the outline.
C29_Witness ==
    /\ ext_cmds = <<"move_to", "line_to", "move_to", "quad_to", "line_to">>
    /\ Len(extractor.outline.contours) = 1
    /\ extractor.outline.contours[1].closed
    /\ Len(extractor.outline.contours[1].points) = 2
    /\ extractor.current_contour.some
    /\ Len(extractor.current_contour.value.points) = 4
    /\ ReadAtEnd.tag = "Ok"
    /\ Len(ReadAtEnd.value.contours) = 1

\* ------------------------------------------------------------------------
\* Properties of the conversions on a glyph that linearization empties
\* ------------------------------------------------------------------------
\* the outline the extractor holds after the glyph's commands
RawOutline(c) ==
    outline_glyph(TheFace, c, OutlineExtractor_new(TheFace.units_per_em)).builder.outline

\* the glyph has contours and linearize_contour empties every one of them
AllEmptied(c, subdivisions) ==
    /\ c \in TheFace.cmap
    /\ ~Outline2D_is_empty(RawOutline(c))
    /\ \A i \in 1..Len(RawOutline(c).contours) :
           Contour_is_empty(linearize_contour(RawOutline(c).contours[i], subdivisions).contour)

IsEmptied(c) == \A s \in PipeSubdivs \cup {DEFAULT_QUALITY} : AllEmptied(c, s)

MeshEntries == {"char_to_mesh_2d", "char_to_mesh_3d", "Glyph::to_mesh_2d", "Glyph::to_mesh_3d"}

\* C30: for a glyph whose raw outline is non-empty and whose every contour
\* is emptied by linearization, linearize_outline returns Ok with an empty
\* outline, and char_to_mesh_2d/3d and Glyph::to_mesh_2d/3d fail in
\* triangulate with TriangulationFailed("Empty outline"), not NoOutline;
\* extrude is not entered and no mesh is returned.
C30_EmptiedGlyphFailsInTriangulate ==
    pipe_call.entry \in MeshEntries /\ pipe_call.character \in Chars
    /\ IsEmptied(pipe_call.character) =>
        /\ \A s \in PipeSubdivs \cup {DEFAULT_QUALITY} :
               linearize_outline(RawOutline(pipe_call.character), s)
                   = [tag |-> "Ok", value |-> Outline2D_new]
        /\ pipe_res.tag = "TriangulationFailed"
        /\ pipe_res.payload = "Empty outline"
        /\ pipe_res.stages = <<"lookup", "extract", "linearize", "triangulate">>
        /\ pipe_res.value = NoValue

\* C30 witness: char_to_mesh_3d has returned for the glyph of three
\* collinear points, whose one contour linearization empties.
C30_Witness ==
    /\ pipe_call.entry = "char_to_mesh_3d"
    /\ pipe_call.character = "."
    /\ IsEmptied(".")
    /\ Len(RawOutline(".").contours) = 1
    /\ pipe_res.tag = "TriangulationFailed"

====
